---- MODULE Spec2Model ----
(***************************************************************************)
(* A model of python_tools/zobov.py (class ZobovVoids): the watershed      *)
(* post-processors postprocess_voids / postprocess_clusters, the box-mode  *)
(* periodic wrap of the constructor, the tracer store (write_box_zobov,    *)
(* delete_tracer_info, reread_tracer_info) and generate_buffer.            *)
(*                                                                         *)
(* Numbers.  Density ratios range from below 1 to above 10^20, which no    *)
(* machine integer of TLC holds.  A ratio is therefore one decimal         *)
(* m * 10^e with a single significant digit m in 1..9, written Dec(m, e),  *)
(* and encoded by the integer (e + 7) * 10 + m: the encoding is strictly   *)
(* increasing in the value, so every comparison the code makes on ratios   *)
(* (rval >= 1, rstopadd > 10 ** 20) is the same comparison on the codes.   *)
(* The sentinel -1 is the integer -1, below every ratio.  The code does no *)
(* arithmetic on ratios on the paths its hard-coded flags leave reachable. *)
(***************************************************************************)
EXTENDS Integers, Sequences, FiniteSets, TLC

VARIABLES
    \* ---- raw ZOBOV output and configuration read by the post-processors
    list_file,        \* rawZOBOV/<handle>.txt, the candidate rows in file order
    void_file,        \* rawZOBOV/<handle>.void, one descriptor line per candidate
    pp_pc,            \* position of the post-processor
    pp_kind,          \* "void" or "cluster": which post-processor ran
    sorted_order,     \* the argsort of the core densities (0-based file indices)
    new_void_file,    \* <prefix>.void: the lines written so far
    new_list_file,    \* <prefix>_list.txt: the rows written so far
    edge_flag,        \* edge_flag array built by the post-processor
    num__acc,         \* number of accepted structures
    \* ---- the tracer table and the attributes of the object that go with it
    is_box,           \* cubic simulation box (TRUE) or sky survey (FALSE)
    box_length,       \* self.box_length
    tracers,          \* self.tracers: an ndarray (Ndarray) or the integer 0 (IntZero)
    num_tracers,      \* self.num_tracers
    num_mocks,        \* self.num_mocks
    num_part_total,   \* self.num_part_total
    tr_pc,            \* position of the constructor / the last tracer-store call
    \* ---- the position file and the stages that read the table back
    posn_file,        \* <handle>_pos.dat as the flat stream of its items; <<>>: none
    table_written,    \* history: self.tracers at the last write_box_zobov
    stage,            \* the last stage that needed tracer data, and what it got
    \* ---- survey geometry and the locals generate_buffer leaves behind
    z_min,            \* self.z_min
    f_sky,            \* self.f_sky, in percent of the sky
    r_near,           \* self.r_near
    r_far,            \* self.r_far
    survey_pix,       \* generate_buffer: the mask pixels at the current resolution
    buffers,          \* generate_buffer: the buffers array, saved to <handle>_mocks.npy
    num_guard_mocks,  \* generate_buffer: number of guard rows at the end of buffers
    \* ---- the sky mask
    mask,             \* the Healpix map of mask_file: pixel -> completeness in percent
    log,              \* the messages printed about galaxies that were removed
    \* ---- zobov_wrapper and the programs it calls
    env,              \* arguments of zobov_wrapper and what the ZOBOV programs will do
    files,            \* <handle>.vol, <handle>.trvol and <handle>c.vol
    calls,            \* the subprocess calls of the last zobov_wrapper, in order
    zw_pc,            \* how the last zobov_wrapper ended ("idle": not called)
    num_non_edge,     \* self.num_non_edge
    \* ---- the void catalogues
    adj_file,         \* rawZOBOV/<handle>.adj: the count, and the pairs of each tracer
    zone_file,        \* rawZOBOV/<handle>.zone: the zone of each tracer
    void_cat,         \* <void_prefix>_cat.txt, the rows of the circumcentre catalogue
    bary_cat,         \* barycentres/<void_prefix>_baryC_cat.txt
    circumcentres,    \* the local circumcentre at the end of each turn of the loop
    cc_pc,            \* how the last find_void_circumcentres ended
    bc_pc,            \* how the last find_void_barycentres ended
    \* ---- the loops that are followed turn by turn
    partadjs,         \* find_void_circumcentres: the adjacency lists built so far
    partadjcount,     \* find_void_circumcentres: the counter of each list
    adj_pc,           \* the next tracer of the .adj file to read (-1: not reading)
    vertices,         \* find_void_circumcentres: the core of a void and its neighbours
    boundary,         \* find_mask_boundary: the boundary map
    bnd_pc,           \* find_mask_boundary: the next turn j of its loop (-1: idle)
    completeness_limit, \* find_mask_boundary: its argument, in percent
    nside,            \* generate_buffer: the resolution of the map being upgraded
    mocks_wanted,     \* generate_buffer: num_high_mocks or num_bound_mocks
    rand_pix,         \* generate_buffer: the length of rand_pix and its pixels
    upg_pc            \* generate_buffer: position in the upgrade loop

pp_vars == <<list_file, void_file, pp_pc, pp_kind, sorted_order,
             new_void_file, new_list_file, edge_flag, num__acc>>

tr_vars == <<is_box, box_length, tracers, num_tracers, num_mocks,
             num_part_total, tr_pc>>

store_vars == <<posn_file, table_written, stage>>

survey_vars == <<z_min, f_sky, r_near, r_far, survey_pix, buffers, num_guard_mocks>>

wrapper_vars == <<env, files, calls, zw_pc, num_non_edge>>

cat_vars == <<adj_file, zone_file, void_cat, bary_cat, circumcentres, cc_pc, bc_pc>>

loop_vars == <<partadjs, partadjcount, adj_pc, vertices, boundary, bnd_pc,
               completeness_limit, nside, mocks_wanted, rand_pix, upg_pc>>

run_vars == <<mask, log, wrapper_vars, cat_vars, loop_vars>>

vars == <<pp_vars, tr_vars, store_vars, survey_vars, run_vars>>

(***************************************************************************)
(* Bounds of the model.                                                    *)
(***************************************************************************)
\* largest number of candidate rows of a raw list file
MaxCand == 2

\* largest number of rows of a tracer file
MaxTracers == 2

\* largest number of buffer mocks generate_buffer places in one layer
MaxMocks == 2

\* points per axis of the guard grid (the code uses 20)
GuardGrid == 2

\* galaxies in the catalogue file of a survey
MaxGalaxies == 3

(***************************************************************************)
(* Helpers: Python indexing and numpy selections.                          *)
(***************************************************************************)
Min(a, b) == IF a < b THEN a ELSE b

Max(a, b) == IF a > b THEN a ELSE b

Abs(a) == IF a < 0 THEN -a ELSE a

\* np.min and np.max of a non-empty array
MinOf(s) == CHOOSE x \in {s[i] : i \in 1..Len(s)} : \A i \in 1..Len(s) : x <= s[i]

MaxOf(s) == CHOOSE x \in {s[i] : i \in 1..Len(s)} : \A i \in 1..Len(s) : x >= s[i]

\* encoding of the decimal m * 10^e (see the module comment)
Dec(m, e) == (e + 7) * 10 + m

\* seq[p] with Python's 0-based index
Tok(line, p) == line[p + 1]

\* seq[a:b] with Python's 0-based, end-exclusive, clipped slice
Slice(line, a, b) == SubSeq(line, a + 1, Min(b, Len(line)))

SeqToSet(s) == {s[i] : i \in 1..Len(s)}

\* np.in1d(vid, zones) applied as a row mask, then one column summed
RECURSIVE SumVolIn(_, _)
SumVolIn(rows, zones) ==
    IF rows = <<>> THEN 0
    ELSE (IF Head(rows).vid \in zones THEN Head(rows).vol ELSE 0)
         + SumVolIn(Tail(rows), zones)

RECURSIVE SumNpIn(_, _)
SumNpIn(rows, zones) ==
    IF rows = <<>> THEN 0
    ELSE (IF Head(rows).vid \in zones THEN Head(rows).np ELSE 0)
         + SumNpIn(Tail(rows), zones)

Perms(n) == {p \in [1..n -> 1..n] : \A i, j \in 1..n : p[i] = p[j] => i = j}

(***************************************************************************)
(* The tracer table.  self.tracers is a two-dimensional ndarray, kept as   *)
(* its column count and the sequence of its rows, until delete_tracer_info *)
(* rebinds the attribute to the integer 0.  Coordinates, angles and        *)
(* redshifts are integers in a fixed small unit.                           *)
(***************************************************************************)
Ndarray(ncols, rows) == [type |-> "ndarray", ncols |-> ncols, rows |-> rows]

\* the value delete_tracer_info leaves in self.tracers
IntZero == [type |-> "int", ncols |-> 0, rows |-> <<>>]

\* self.tracers[:, k]
Column(t, k) == [i \in 1..Len(t.rows) |-> t.rows[i][k + 1]]

\* self.tracers[:self.num_tracers, :3]
Positions(t) == [i \in 1..Min(num_tracers, Len(t.rows)) |-> SubSeq(t.rows[i], 1, 3)]

\* self.tracers[:self.num_tracers, 5], [.., 3] and [.., 4]: what the survey
\* reweighting of zobov_wrapper takes from the table
SkyColumns(t) ==
    <<SubSeq(Column(t, 5), 1, Min(num_tracers, Len(t.rows))),
      SubSeq(Column(t, 3), 1, Min(num_tracers, Len(t.rows))),
      SubSeq(Column(t, 4), 1, Min(num_tracers, Len(t.rows)))>>

\* the stream write_box_zobov puts in the position file: the particle count,
\* then the columns one after another (three in box mode, six for a survey)
PosnStream(t) ==
    <<num_part_total>> \o Column(t, 0) \o Column(t, 1) \o Column(t, 2)
    \o (IF ~is_box THEN Column(t, 3) \o Column(t, 4) \o Column(t, 5) ELSE <<>>)

\* np.fromfile(F, count = n) with the file position after `offset` items
FromFile(F, offset, n) == SubSeq(F, offset + 1, Min(offset + n, Len(F)))

\* what np.empty may hold in a cell that is never assigned
Uninitialised == {-7, 7}

\* the tables reread_tracer_info can leave in self.tracers when the count in
\* the file matches: num_part_total rows of six columns, of which the last
\* three are read from the file for a survey and never assigned for a box
RereadTables ==
    LET n == posn_file[1]
        col(k) == FromFile(posn_file, 1 + k * n, n)
    IN  IF ~is_box
        THEN {Ndarray(6, [i \in 1..num_part_total |->
                             <<col(0)[i], col(1)[i], col(2)[i],
                               col(3)[i], col(4)[i], col(5)[i]>>])}
        ELSE {Ndarray(6, [i \in 1..num_part_total |->
                             <<col(0)[i], col(1)[i], col(2)[i],
                               g[i][1], g[i][2], g[i][3]>>]) :
                 g \in [1..num_part_total -> [1..3 -> Uninitialised]]}

\* the sanity check of reread_tracer_info
CountMatches == posn_file[1] = num_part_total

\* "check whether tracer information is present, re-read in if required":
\* len() of the integer 0 raises TypeError; a table of the wrong length is
\* read again.  Each outcome is the exception raised (or "none") and the table
\* the stage goes on with.
TracerCheck ==
    IF tracers.type = "int" THEN {[err |-> "TypeError", tracers |-> tracers]}
    ELSE IF Len(tracers.rows) # num_part_total
         THEN IF ~CountMatches THEN {[err |-> "exit", tracers |-> tracers]}
              ELSE {[err |-> "none", tracers |-> t] : t \in RereadTables}
         ELSE {[err |-> "none", tracers |-> tracers]}

\* no stage has asked for tracer data yet
NoStage == [name |-> "none", evicted |-> FALSE, outcome |-> "none", data |-> <<>>]

\* a stage has made its check: `evicted` tells whether self.tracers was the
\* integer 0 when the stage began, `data` is the slice of the table it took
StageRecord(name, outcome, data) ==
    [name |-> name, evicted |-> tracers.type = "int", outcome |-> outcome,
     data |-> data]

\* the position of the tracer store after a stage has made its check
AfterCheck(chk) ==
    IF chk.err # "none" THEN chk.err
    ELSE IF chk.tracers # tracers THEN "reread" ELSE tr_pc

\* no call has ended in an exception or in sys.exit
Alive ==
    /\ tr_pc \notin {"exit", "TypeError"}
    /\ pp_pc \notin {"exit", "TypeError", "IndexError", "ValueError", "IOError"}
    /\ zw_pc \in {"idle", "done"}
    /\ cc_pc \in {"idle", "done"}
    /\ bc_pc \in {"idle", "done"}

(***************************************************************************)
(* Configuration of the post-processors.                                   *)
(***************************************************************************)
\* hard-coded merging policy
dont_merge_off == FALSE
dont_merge == TRUE
count_all_voids == TRUE
count_all_clusters == TRUE

\* user thresholds, in the density unit of the list file's CoreDens column
min_dens_cut == 3
max_dens_cut == 1
void_min_num == 2
cluster_min_num == 2

\* mean volume per particle; the division is exact for the box lengths and
\* particle counts of the model
meanvol_trc == (box_length * box_length * box_length) \div num_part_total

(***************************************************************************)
(* The candidate loop of postprocess_voids and postprocess_clusters.       *)
(* A candidate row is [vid, edge, core, dens, vol, np, r]: columns 0, 1,   *)
(* 2, 3, 4, 5 and 9 of the raw list file.  A descriptor line is the token  *)
(* sequence [seed, n1, r1, z.., n2, r2, z.., 0, r_stop].                   *)
(***************************************************************************)
\* the pruning test of a void candidate
QualifiesVoidLeq(rval, coredens, numpart, zone, counted_zones) ==
    /\ rval >= Dec(1, 0)
    /\ coredens <= min_dens_cut
    /\ numpart >= void_min_num
    /\ (count_all_voids \/ zone \notin counted_zones)

QualifiesVoid(rval, coredens, numpart, zone, counted_zones) ==
    /\ rval >= Dec(1, 0)
    /\ coredens < min_dens_cut
    /\ numpart >= void_min_num
    /\ (count_all_voids \/ zone \notin counted_zones)

\* the pruning test of a cluster candidate
QualifiesCluster(rval, coredens, numpart, zone, counted_zones) ==
    /\ rval >= Dec(1, 0)
    /\ coredens > max_dens_cut
    /\ numpart >= cluster_min_num
    /\ (count_all_clusters \/ zone \notin counted_zones)

\* the locals of one loop iteration before the while loop
StartCandidate(row, voidline) ==
    [pos |-> 1,
     num_zones_to_add |-> Tok(voidline, 1),
     finalpos |-> 1 + Tok(voidline, 1) + 1,
     rval |-> Tok(voidline, 2),
     rstopadd |-> row.r,
     num_adds |-> 0,
     add_more |-> TRUE,
     zonelist |-> <<row.vid>>,
     total_vol |-> row.vol,
     total_num_parts |-> row.np,
     zonestoadd |-> <<>>]

\* "cannot add these zones"; the two threshold disjuncts of the condition are
\* guarded by use_link_density_threshold and use_r_threshold, both hard-coded False
CannotAdd == dont_merge

RefuseZonesKeepPos(st, zonestoadd) ==
    [st EXCEPT !.rstopadd = st.rval,
               !.add_more = FALSE,
               !.zonestoadd = zonestoadd]

RefuseZones(st, zonestoadd) ==
    [st EXCEPT !.rstopadd = st.rval,
               !.add_more = FALSE,
               !.finalpos = st.finalpos - (st.num_zones_to_add + 1),
               !.zonestoadd = zonestoadd]

\* "keep adding zones"
AddZones(st, zonestoadd, rows) ==
    [st EXCEPT !.zonelist = st.zonelist \o zonestoadd,
               !.num_adds = st.num_adds + st.num_zones_to_add,
               !.total_vol = st.total_vol + SumVolIn(rows, SeqToSet(zonestoadd)),
               !.total_num_parts = st.total_num_parts
                                   + SumNpIn(rows, SeqToSet(zonestoadd)),
               !.zonestoadd = zonestoadd]

\* the while loop over the merge steps of one descriptor line
RECURSIVE MergeLoop(_, _, _)
MergeLoop(voidline, rows, st) ==
    IF ~(st.num_zones_to_add > 0 /\ st.add_more) THEN st
    ELSE LET zonestoadd == Slice(voidline, st.pos + 2,
                                 st.pos + st.num_zones_to_add + 2)
             s1 == IF CannotAdd THEN RefuseZones(st, zonestoadd)
                   ELSE AddZones(st, zonestoadd, rows)
             pos2 == st.pos + st.num_zones_to_add + 2
             s2 == [s1 EXCEPT !.pos = pos2,
                              !.num_zones_to_add = Tok(voidline, pos2),
                              !.rval = Tok(voidline, pos2 + 1),
                              !.finalpos = IF s1.add_more
                                           THEN pos2 + Tok(voidline, pos2) + 1
                                           ELSE s1.finalpos]
         IN MergeLoop(voidline, rows, s2)

\* "1 in edgelist[np.in1d(vid, zonestoadd)]"
EdgeContaminated(rows, zonestoadd) ==
    \E k \in 1..Len(rows) :
        rows[k].vid \in SeqToSet(zonestoadd) /\ rows[k].edge = 1

\* the line written to the output hierarchy file
NewVoidLine(voidline, st) ==
    Slice(voidline, 0, st.finalpos)
    \o (IF ~st.add_more THEN <<0>> ELSE <<>>)
    \o <<st.rstopadd>>

\* the substitution made before the list row is written
ListRatioGeq(rstopadd) == IF rstopadd >= Dec(1, 20) THEN -1 ELSE rstopadd

ListRatio(rstopadd) == IF rstopadd > Dec(1, 20) THEN -1 ELSE rstopadd

\* the '%f' of the list row (and the '%0.6f' of np.savetxt): six decimal
\* places.  A ratio of 10^-6 or more keeps its single digit; a smaller one is
\* written as 0.000000 or 0.000001.  The sentinel is written as -1.000000.
Fmt6(x) ==
    IF x <= 0 \/ x >= Dec(1, -6) THEN x
    ELSE IF x > Dec(5, -7) THEN Dec(1, -6) ELSE 0

\* the row written to the output list file
NewListRow(row, st) ==
    [vid |-> row.vid, core |-> row.core, dens |-> row.dens, zone_np |-> row.np,
     nzones |-> st.num_adds + 1, nparts |-> st.total_num_parts,
     vol |-> st.total_vol * meanvol_trc, r |-> Fmt6(ListRatio(st.rstopadd))]

\* the accumulators of the candidate loop
EmptyOut == [counted_zones |-> {}, edge_flag |-> <<>>, num__acc |-> 0,
             lines |-> <<>>, rows |-> <<>>]

\* one accepted candidate: the body of the "if" of the candidate loop
Accept(out, rows, row, voidline) ==
    LET st == MergeLoop(voidline, rows, StartCandidate(row, voidline))
    IN  [counted_zones |-> out.counted_zones \cup SeqToSet(st.zonelist),
         edge_flag |-> Append(out.edge_flag,
                              IF EdgeContaminated(rows, st.zonestoadd)
                              THEN 1 ELSE 0),
         num__acc |-> out.num__acc + 1,
         lines |-> Append(out.lines, NewVoidLine(voidline, st)),
         rows |-> Append(out.rows, NewListRow(row, st))]

\* for i in range(num_voids), from iteration i (1-based) on; rows are the
\* sorted candidate rows and hier the descriptor lines in file order
RECURSIVE CandidateLoop(_, _, _, _, _, _)
CandidateLoop(kind, rows, hier, order, i, out) ==
    IF i > Len(rows) THEN out
    ELSE LET row == rows[i]
             voidline == hier[order[i] + 1]
             rval == Tok(voidline, 2)
             ok == IF kind = "void"
                   THEN QualifiesVoid(rval, row.dens, row.np, row.vid,
                                      out.counted_zones)
                   ELSE QualifiesCluster(rval, row.dens, row.np, row.vid,
                                         out.counted_zones)
         IN CandidateLoop(kind, rows, hier, order, i + 1,
                          IF ok THEN Accept(out, rows, row, voidline) ELSE out)

(***************************************************************************)
(* np.argsort.  A sort key is the rational <<num, den>> with den > 0: the  *)
(* core density d itself, <<d, 1>>, for voids and its reciprocal 1. / d,   *)
(* <<1, d>>, for clusters.  The order among equal keys is left open: any   *)
(* permutation that sorts the keys may be returned.                        *)
(***************************************************************************)
RatLeq(x, y) == x[1] * y[2] <= y[1] * x[2]

ArgSortIdentity(keys) == {[i \in 1..Len(keys) |-> i - 1]}

ArgSort(keys) ==
    {[i \in 1..Len(keys) |-> p[i] - 1] : p \in
        {q \in Perms(Len(keys)) :
            \A i \in 1..(Len(keys) - 1) : RatLeq(keys[q[i]], keys[q[i + 1]])}}

VoidSortKeys(rows) == [i \in 1..Len(rows) |-> <<rows[i].dens, 1>>]

ClusterSortKeys(rows) == [i \in 1..Len(rows) |-> <<1, rows[i].dens>>]

\* voidsread[sorted_order]
Reorder(rows, order) == [i \in 1..Len(rows) |-> rows[order[i] + 1]]

(***************************************************************************)
(* The object when the post-processors start: a box of four tracers whose  *)
(* table has been written to the position file and is still in memory.     *)
(***************************************************************************)
NoSurvey ==
    /\ z_min = 0
    /\ f_sky = 100
    /\ r_near = 0
    /\ r_far = 0
    /\ survey_pix = {}
    /\ buffers = <<>>
    /\ num_guard_mocks = 0

\* no loop is being followed
NoLoops ==
    /\ partadjs = <<>>
    /\ partadjcount = <<>>
    /\ adj_pc = -1
    /\ vertices = [core |-> -1, err |-> "none", nbrs |-> <<>>]
    /\ boundary = <<>>
    /\ bnd_pc = -1
    /\ completeness_limit = 0
    /\ nside = 0
    /\ mocks_wanted = 0
    /\ rand_pix = [n |-> 0, pix |-> {}]
    /\ upg_pc = "idle"

\* no adjacency or zone file, and no catalogue written
NoCatalogue ==
    /\ adj_file = [n |-> -1, pairs |-> <<>>]
    /\ zone_file = <<>>
    /\ void_cat = <<>>
    /\ bary_cat = <<>>
    /\ circumcentres = <<>>
    /\ cc_pc = "idle"
    /\ bc_pc = "idle"

\* a binary file of a count and that many float64 values; Missing: no file
VolFile(n, v) == [n |-> n, v |-> v]

Missing == VolFile(-1, <<>>)

NoFiles == [vol |-> Missing, trvol |-> Missing, cvol |-> Missing]

\* the volume files an earlier run left in rawZOBOV/, with the counts nt and
\* nv in the headers of <handle>.trvol and <handle>.vol
RawZobovFiles(nt, nv) ==
    [vol |-> VolFile(nv, [i \in 1..nv |-> 200]),
     trvol |-> VolFile(nt, [i \in 1..nt |-> 200]),
     cvol |-> VolFile(nv, [i \in 1..nv |-> 200])]

\* the ZOBOV programs all succeed and give every cell the volume 200
BenignEnv ==
    [use_vozisol |-> FALSE, find_clusters |-> TRUE, fails |-> "none",
     vol_written |-> TRUE, vols |-> [i \in 1..(MaxTracers + 2) |-> 200],
     edge |-> {}, selfn |-> [z \in 1..2 |-> 1],
     use_z_wts |-> TRUE, use_ang_wts |-> TRUE]

\* zobov_wrapper has run before and left consistent files
WrapperRanBefore ==
    /\ env = BenignEnv
    /\ files = RawZobovFiles(num_tracers, num_tracers)
    /\ calls = <<>>
    /\ zw_pc = "idle"

\* zobov_wrapper has not been called
NoWrapper ==
    /\ env = BenignEnv
    /\ files = NoFiles
    /\ calls = <<>>
    /\ zw_pc = "idle"

\* no mask file read yet
NoRun ==
    /\ mask = <<>>
    /\ log = <<>>
    /\ NoWrapper

\* no raw ZOBOV output yet
NoPostprocess ==
    /\ list_file = <<>>
    /\ void_file = <<>>
    /\ pp_pc = "off"
    /\ pp_kind = "none"
    /\ sorted_order = <<>>
    /\ new_void_file = <<>>
    /\ new_list_file = <<>>
    /\ edge_flag = <<>>
    /\ num__acc = 0

\* a box of four tracers
BoxOfFour ==
    /\ is_box = TRUE
    /\ box_length = 2
    /\ tracers = Ndarray(3, <<<<0, 0, 0>>, <<1, 0, 1>>, <<0, 1, 1>>, <<1, 1, 0>>>>)
    /\ num_tracers = 4
    /\ num_mocks = 0
    /\ num_part_total = 4
    /\ tr_pc = "written"
    /\ posn_file = <<4, 0, 1, 0, 1, 0, 0, 1, 1, 0, 1, 1, 0>>
    /\ table_written = Ndarray(3, <<<<0, 0, 0>>, <<1, 0, 1>>, <<0, 1, 1>>, <<1, 1, 0>>>>)
    /\ stage = NoStage
    /\ NoSurvey
    /\ mask = <<>>
    /\ log = <<>>
    /\ num_non_edge = num_tracers

\* a box of four tracers, tessellated
TessellatedBox ==
    /\ BoxOfFour
    /\ NoCatalogue
    /\ NoLoops

InitTessellated ==
    /\ TessellatedBox
    /\ WrapperRanBefore

(***************************************************************************)
(* The raw files the model draws.  Each candidate takes one of             *)
(* (core density, particle count) in DensNp, an edge flag, and one of the  *)
(* descriptor shapes below; its zone id is its file index, except that the  *)
(* second candidate may repeat zone 0.                                     *)
(***************************************************************************)
DensNp == {<<1, 2>>, <<2, 2>>, <<3, 2>>, <<2, 1>>}

\* zones named in the merge steps of the descriptor of seed s
ZoneA(s) == (s + 1) % (MaxCand + 1)
ZoneB(s) == (s + 2) % (MaxCand + 1)

\* descriptor line and RATIO column (list file column 9) of shape c for seed s
Shape(s, c) ==
    CASE c = 1 -> [line |-> <<s, 0, Dec(1, 0)>>, r |-> Dec(1, 20)]
      [] c = 2 -> [line |-> <<s, 1, Dec(5, -1), ZoneA(s), 0, Dec(2, 20)>>,
                   r |-> Dec(1, 0)]
      [] c = 3 -> [line |-> <<s, 2, Dec(2, 20), ZoneA(s), ZoneB(s), 0, Dec(3, 20)>>,
                   r |-> Dec(1, 0)]
      [] OTHER -> [line |-> <<s, 1, Dec(2, 0), ZoneA(s), 1, Dec(4, 0), ZoneB(s),
                              0, Dec(2, 20)>>,
                   r |-> Dec(3, 0)]

Choice == [edge : {0, 1}, dn : DensNp, shape : 1..4]

RawRow(i, zone, c) ==
    [vid |-> zone, edge |-> c.edge, core |-> i - 1, dens |-> c.dn[1],
     vol |-> c.dn[2] + 1, np |-> c.dn[2], r |-> Shape(zone, c.shape).r]

InitPostprocess ==
    \E n \in 1..MaxCand : \E ch \in [1..n -> Choice] : \E rep \in {{}, {2} \cap (1..n)} :
        LET zone(i) == IF i \in rep THEN 0 ELSE i - 1
        IN  /\ list_file = [i \in 1..n |-> RawRow(i, zone(i), ch[i])]
            /\ void_file = <<<<n>>>>
                           \o [i \in 1..n |-> Shape(zone(i), ch[i].shape).line]
            /\ pp_pc = "raw"
            /\ pp_kind = "none"
            /\ sorted_order = <<>>
            /\ new_void_file = <<>>
            /\ new_list_file = <<>>
            /\ edge_flag = <<>>
            /\ num__acc = 0
            /\ InitTessellated

(***************************************************************************)
(* postprocess_voids and postprocess_clusters up to the end of the         *)
(* candidate loop.  np.loadtxt returns a one-dimensional array for a list  *)
(* file with a single row, on which voidsread[:, 3] raises IndexError.     *)
(* postprocess_clusters needs the tracer positions and checks for the      *)
(* table between the sanity check of the hierarchy file and the opening of *)
(* its output files.                                                       *)
(***************************************************************************)
Postprocess(kind, order) ==
    \E out \in {CandidateLoop(kind, Reorder(list_file, order), Tail(void_file),
                              order, 1, EmptyOut)} :
        /\ pp_pc' = "parsed"
        /\ pp_kind' = kind
        /\ sorted_order' = order
        /\ new_void_file' = out.lines
        /\ new_list_file' = out.rows
        /\ edge_flag' = out.edge_flag
        /\ num__acc' = out.num__acc

\* the post-processor stops before it has opened an output file
PostprocessStops(kind, order, how) ==
    /\ pp_pc' = how
    /\ pp_kind' = kind
    /\ sorted_order' = order
    /\ UNCHANGED <<new_void_file, new_list_file, edge_flag, num__acc>>

\* the count in the header of a volume file that was never compared
HeaderUnchecked(f) == "ok"

\* "sanity check": the file is opened and the count in its header compared
\* with self.num_tracers
HeaderCheck(f) ==
    IF f = Missing THEN "IOError"
    ELSE IF f.n # num_tracers THEN "exit"
    ELSE "ok"

\* the checks on <handle>.trvol and then on <handle>.vol
VolumeChecks ==
    IF HeaderCheck(files.trvol) # "ok" THEN HeaderCheck(files.trvol)
    ELSE HeaderCheck(files.vol)

PostprocessVoids ==
    /\ pp_pc = "raw"
    /\ Alive
    /\ IF Len(list_file) < 2
       THEN PostprocessStops("void", <<>>, "IndexError")
       ELSE \E order \in ArgSort(VoidSortKeys(list_file)) :
                IF void_file[1][1] # Len(list_file)
                THEN PostprocessStops("void", order, "exit")
                ELSE IF VolumeChecks # "ok"
                THEN PostprocessStops("void", order, VolumeChecks)
                ELSE Postprocess("void", order)
    /\ UNCHANGED <<list_file, void_file, tr_vars, store_vars, survey_vars, run_vars>>

PostprocessClusters ==
    /\ pp_pc = "raw"
    /\ Alive
    /\ IF Len(list_file) < 2
       THEN /\ PostprocessStops("cluster", <<>>, "IndexError")
            /\ UNCHANGED <<tracers, tr_pc, stage>>
       ELSE \E order \in ArgSort(ClusterSortKeys(list_file)) :
                IF void_file[1][1] # Len(list_file)
                THEN /\ PostprocessStops("cluster", order, "exit")
                     /\ UNCHANGED <<tracers, tr_pc, stage>>
                ELSE IF VolumeChecks # "ok"
                THEN /\ PostprocessStops("cluster", order, VolumeChecks)
                     /\ UNCHANGED <<tracers, tr_pc, stage>>
                ELSE \E chk \in TracerCheck :
                        /\ tracers' = chk.tracers
                        /\ tr_pc' = AfterCheck(chk)
                        /\ IF chk.err # "none"
                           THEN /\ PostprocessStops("cluster", order, chk.err)
                                /\ stage' = StageRecord("postprocess_clusters",
                                                        chk.err, <<>>)
                           ELSE /\ Postprocess("cluster", order)
                                /\ stage' = StageRecord("postprocess_clusters", "ok",
                                                        Positions(chk.tracers))
    /\ UNCHANGED <<list_file, void_file, is_box, box_length, num_tracers,
                   num_mocks, num_part_total, posn_file, table_written,
                   survey_vars, run_vars>>

(***************************************************************************)
(* "tidy up the files": the count is put in front of the hierarchy file,   *)
(* and the list file is read back and saved with a header.  np.loadtxt     *)
(* returns a two-dimensional array only for two rows or more; for fewer,   *)
(* np.savetxt has opened (and so emptied) the list file when it finds that *)
(* the eight-column format does not fit and raises ValueError.             *)
(***************************************************************************)
TidyFiles ==
    /\ pp_pc = "parsed"
    /\ new_void_file' = <<<<num__acc>>>> \o new_void_file
    /\ IF Len(new_list_file) >= 2
       THEN /\ pp_pc' = "tidied"
            /\ new_list_file' = [j \in 1..Len(new_list_file) |->
                                    [new_list_file[j] EXCEPT !.r = Fmt6(@)]]
       ELSE /\ pp_pc' = "ValueError"
            /\ new_list_file' = <<>>
    /\ UNCHANGED <<list_file, void_file, pp_kind, sorted_order, edge_flag, num__acc,
                   tr_vars, store_vars, survey_vars, run_vars>>

NextPostprocess == PostprocessVoids \/ PostprocessClusters \/ TidyFiles

SpecPostprocess == InitPostprocess /\ [][NextPostprocess]_vars

(***************************************************************************)
(* postprocess_voids over raw files that need not agree: the count on the  *)
(* first line of the hierarchy file and the counts in the headers of the   *)
(* two volume files are drawn, and the output files of an earlier run are  *)
(* there.                                                                  *)
(***************************************************************************)
\* the output files of an earlier run that found one void
OldVoidFile == <<<<1>>, Shape(0, 1).line>>

OldListFile ==
    <<[vid |-> 0, core |-> 0, dens |-> 1, zone_np |-> 2, nzones |-> 1,
       nparts |-> 2, vol |-> 6, r |-> Dec(1, 20)]>>

InitAbort ==
    \E n \in 1..MaxCand : \E ch \in [1..n -> Choice] :
    \E count \in {n, n + 1} : \E nt, nv \in {4, 5} :
        /\ list_file = [i \in 1..n |-> RawRow(i, i - 1, ch[i])]
        /\ void_file = <<<<count>>>>
                       \o [i \in 1..n |-> Shape(i - 1, ch[i].shape).line]
        /\ pp_pc = "raw"
        /\ pp_kind = "none"
        /\ sorted_order = <<>>
        /\ new_void_file = OldVoidFile
        /\ new_list_file = OldListFile
        /\ edge_flag = <<>>
        /\ num__acc = 0
        /\ TessellatedBox
        /\ env = BenignEnv
        /\ files = RawZobovFiles(nt, nv)
        /\ calls = <<>>
        /\ zw_pc = "idle"

NextAbort == PostprocessVoids \/ TidyFiles

SpecAbort == InitAbort /\ [][NextAbort]_vars

(***************************************************************************)
(* The constructor for a simulation box (is_box, neither boss_like nor     *)
(* special_patchy): the state starts with the table np.loadtxt returned in *)
(* the local `tracers`, and ConstructBox is the rest of __init__.          *)
(***************************************************************************)
\* default of the constructor argument posn_cols
posn_cols == <<0, 1, 2>>

\* tracers[:, posn_cols]
SelectColumns(rows, cols) ==
    [i \in 1..Len(rows) |-> [k \in 1..Len(cols) |-> rows[i][cols[k] + 1]]]

\* tracers[tracers[:, k] > box_length, k] -= box_length, on one coordinate
WrapHigh(x, L) == IF x > L THEN x - L ELSE x

\* tracers[tracers[:, k] < 0, k] += box_length, on one coordinate
WrapLow(x, L) == IF x < 0 THEN x + L ELSE x

\* "check that tracer positions lie within the box, wrap using PBC if not"
WrapRows(rows, L) ==
    [i \in 1..Len(rows) |-> [k \in 1..3 |-> WrapLow(WrapHigh(rows[i][k], L), L)]]

\* box lengths passed to the constructor
BoxLengths == {0, 4}

\* coordinates found in a tracer file: inside the box of length 4, on its
\* faces, less than one and more than one box length outside
CoordX == {-5, -1, 0, 1, 4, 9}
CoordY == {-1, 1, 4}
CoordZ == {1, 9}

\* the rows of a tracer file: three position columns and one more
FileRows == {<<x, y, z, 1>> : x \in CoordX, y \in CoordY, z \in CoordZ}

\* a file with too few columns
ShortRows == {<<x, y>> : x \in CoordX, y \in CoordY}

InitBox ==
    /\ is_box = TRUE
    /\ box_length \in BoxLengths
    /\ \E n \in 1..MaxTracers :
          \/ \E rows \in [1..n -> FileRows] : tracers = Ndarray(4, rows)
          \/ \E rows \in [1..n -> ShortRows] : tracers = Ndarray(2, rows)
    /\ num_tracers = 0
    /\ num_mocks = 0
    /\ num_part_total = 0
    /\ tr_pc = "loaded"
    /\ posn_file = <<>>
    /\ table_written = IntZero
    /\ stage = NoStage
    /\ NoSurvey
    /\ NoRun
    /\ num_non_edge = 0
    /\ NoCatalogue
    /\ NoLoops
    /\ NoPostprocess

ConstructBox ==
    /\ tr_pc = "loaded"
    /\ is_box
    /\ IF ~(tracers.ncols >= 3) \/ ~(Len(posn_cols) = 3)
       THEN /\ tr_pc' = "exit"
            /\ UNCHANGED <<tracers, num_tracers, num_mocks, num_part_total>>
       ELSE /\ num_tracers' = Len(tracers.rows)
            /\ IF box_length <= 0
               THEN /\ tr_pc' = "exit"
                    /\ tracers' = Ndarray(3, SelectColumns(tracers.rows, posn_cols))
                    /\ UNCHANGED <<num_mocks, num_part_total>>
               ELSE /\ tr_pc' = "constructed"
                    /\ tracers' = Ndarray(3, WrapRows(SelectColumns(tracers.rows,
                                                                    posn_cols),
                                                      box_length))
                    /\ num_mocks' = 0
                    /\ num_part_total' = Len(tracers.rows)
    /\ UNCHANGED <<is_box, box_length, pp_vars, store_vars, survey_vars, run_vars>>

NextBox == ConstructBox

SpecBox == InitBox /\ [][NextBox]_vars

(***************************************************************************)
(* The tracer store of a constructed object: write_box_zobov,              *)
(* delete_tracer_info, reread_tracer_info, and the stages that take data   *)
(* from the table (zobov_wrapper, find_void_circumcentres,                 *)
(* find_void_barycentres, postprocess_clusters).  Of a stage, the model    *)
(* keeps what it does with self.tracers; the tessellation that             *)
(* zobov_wrapper runs and the catalogue files are outside it.  The         *)
(* position file is written once, and the stages run once it exists, as    *)
(* the tessellation needs it.                                              *)
(***************************************************************************)
\* the constructor arguments use_z_wts and use_ang_wts
use_z_wts == env.use_z_wts
use_ang_wts == env.use_ang_wts

\* the elements of seq with an index in S, in their order
RECURSIVE Pick(_, _, _)
Pick(seq, S, i) ==
    IF i > Len(seq) THEN <<>>
    ELSE (IF i \in S THEN <<seq[i]>> ELSE <<>>) \o Pick(seq, S, i + 1)

\* rows of a box of length 30 after the wrap
StoreBoxRows == {<<0, 10, 20>>, <<30, 5, 15>>}

\* survey galaxies in box coordinates, in the order np.unique left them
StoreGalaxies == <<<<15, 17, 15, 90, 0, 2>>, <<16, 15, 15, 0, 0, 1>>>>

\* the buffers behind them: one cap mock and one guard
StoreBuffers == <<<<18, 15, 15, 0, 0, -1>>, <<1, 1, 1, -60, -60, -1>>>>

\* the constructor argument z_max
z_max == 2

\* Cosmology.get_comoving_distance: increasing in the redshift, 0 at 0
ComovingDistance(z) == 40 * z

\* hp.ang2pix(nside, theta, phi), angles in degrees
Ang2Pix(theta, phi) == [theta |-> theta, phi |-> phi, sub |-> 0]

\* the sky pixels of the two galaxies
StorePixels == {Ang2Pix(90, 90), Ang2Pix(90, 0)}

\* two cluster candidates that pass the pruning, with their descriptor lines
StoreListFile ==
    <<RawRow(1, 0, [edge |-> 0, dn |-> <<2, 2>>, shape |-> 1]),
      RawRow(2, 1, [edge |-> 0, dn |-> <<3, 2>>, shape |-> 1])>>

StoreVoidFile == <<<<2>>, Shape(0, 1).line, Shape(1, 1).line>>

InitStore ==
    /\ \/ /\ is_box = TRUE
          /\ \E n \in 1..MaxTracers : \E rows \in [1..n -> StoreBoxRows] :
                /\ tracers = Ndarray(3, rows)
                /\ num_tracers = n
                /\ num_mocks = 0
                /\ num_part_total = n
       \/ /\ is_box = FALSE
          /\ \E S \in SUBSET (1..Len(StoreGalaxies)) :
                /\ S # {}
                /\ Cardinality(S) <= MaxTracers
                /\ tracers = Ndarray(6, Pick(StoreGalaxies, S, 1) \o StoreBuffers)
                /\ num_tracers = Cardinality(S)
                /\ num_mocks = Len(StoreBuffers)
                /\ num_part_total = Cardinality(S) + Len(StoreBuffers)
    /\ box_length = 30
    /\ tr_pc = "constructed"
    /\ posn_file = <<>>
    /\ table_written = IntZero
    /\ stage = NoStage
    /\ NoSurvey
    /\ mask = [p \in StorePixels |-> 100]
    /\ log = <<>>
    /\ WrapperRanBefore
    /\ num_non_edge = num_tracers
    /\ adj_file = [n |-> num_tracers, pairs |-> [k \in 1..num_tracers |-> <<>>]]
    /\ zone_file = [k \in 1..num_tracers |-> 0]
    /\ void_cat = <<>>
    /\ bary_cat = <<>>
    /\ circumcentres = <<>>
    /\ cc_pc = "idle"
    /\ bc_pc = "idle"
    /\ NoLoops
    /\ list_file = StoreListFile
    /\ void_file = StoreVoidFile
    /\ pp_pc = "raw"
    /\ pp_kind = "none"
    /\ sorted_order = <<>>
    /\ new_void_file = <<>>
    /\ new_list_file = <<>>
    /\ edge_flag = <<>>
    /\ num__acc = 0

\* the file is opened for writing and the count written before the first
\* column is taken from self.tracers
WriteBoxZobov ==
    /\ Alive
    /\ posn_file = <<>>
    /\ IF tracers.type = "int"
       THEN /\ posn_file' = <<num_part_total>>
            /\ tr_pc' = "TypeError"
            /\ UNCHANGED table_written
       ELSE /\ posn_file' = PosnStream(tracers)
            /\ tr_pc' = "written"
            /\ table_written' = tracers
    /\ UNCHANGED <<is_box, box_length, tracers, num_tracers, num_mocks,
                   num_part_total, stage, pp_vars, survey_vars, run_vars>>

DeleteTracerInfo ==
    /\ Alive
    /\ tracers' = IntZero
    /\ tr_pc' = "deleted"
    /\ UNCHANGED <<is_box, box_length, num_tracers, num_mocks, num_part_total,
                   store_vars, pp_vars, survey_vars, run_vars>>

RereadTracerInfo ==
    /\ Alive
    /\ posn_file # <<>>
    /\ IF ~CountMatches
       THEN /\ tr_pc' = "exit"
            /\ UNCHANGED tracers
       ELSE /\ tr_pc' = "reread"
            /\ \E t \in RereadTables : tracers' = t
    /\ UNCHANGED <<is_box, box_length, num_tracers, num_mocks, num_part_total,
                   store_vars, pp_vars, survey_vars, run_vars>>

(***************************************************************************)
(* zobov_wrapper.  The ZOBOV programs are outside the repository: env      *)
(* tells which of them exits with a non-zero status (fails), whether the   *)
(* tessellation leaves <handle>.vol behind (vol_written), the volumes it   *)
(* computes (vols), the galaxies it flags as edge cells (edge) and the     *)
(* smoothed selection function at each redshift (selfn).  Volumes are      *)
(* integers; EdgeVol stands for 1.0 / 0.9e30 and BigVol for 0.9e30.        *)
(***************************************************************************)
EdgeVol == 1

BigVol == 9999

\* (self.tracer_dens * self.box_length ** 3.) / self.num_part_total
DensityScale == 2

Call(cmd, status) == [cmd |-> cmd, status |-> status]

\* the exit status of a ZOBOV program
Status(e, prog) == IF e.fails = prog THEN 1 ELSE 0

\* the volumes of all n particles as voz1b1 and voztie leave them
RawVols(e, n) == [i \in 1..n |-> e.vols[i]]

\* the volumes of the galaxies once vozisol or checkedges has removed the
\* buffer mocks and flagged the edge cells; both leave num_tracers volumes
\* in <handle>.vol and in <handle>.trvol, which is what the sanity checks of
\* the post-processing stages expect
Flagged(e, n) == [i \in 1..n |-> IF i \in e.edge THEN EdgeVol ELSE e.vols[i]]

\* what happened so far in a call of zobov_wrapper: pc is "go" while the
\* call goes on, and otherwise tells how it ended
Progress(pc, c, f, nne) == [pc |-> pc, calls |-> c, files |-> f, nne |-> nne]

\* checkedges on the volumes first and the copy to <handle>.trvol after it
CheckEdgesThenCopy(e, c1, vol) ==
    IF num_mocks > 0 /\ Status(e, "checkedges") = 0
    THEN Progress("go",
                  c1 \o <<Call("checkedges", 0), Call("cp vol trvol", 0)>>,
                  [NoFiles EXCEPT !.vol = VolFile(num_tracers, Flagged(e, num_tracers)),
                                  !.trvol = VolFile(num_tracers, Flagged(e, num_tracers))],
                  num_non_edge)
    ELSE Progress("go", Append(c1, Call("cp vol trvol", 0)),
                  [NoFiles EXCEPT !.vol = vol, !.trvol = vol], num_non_edge)

\* ---Step 5: copy the .vol files to .trvol--- and ---Step 6: if buffer
\* mocks were used, remove them and flag edge galaxies---, after the calls
\* c1 have left the volumes vol in <handle>.vol
CopyThenCheckEdges(e, c1, vol) ==
    LET c2 == Append(c1, Call("cp vol trvol", 0))
        f2 == [NoFiles EXCEPT !.vol = vol, !.trvol = vol]
    IN  IF num_mocks > 0
        THEN Progress("go",
                      Append(c2, Call("checkedges", Status(e, "checkedges"))),
                      IF Status(e, "checkedges") = 0
                      THEN [f2 EXCEPT
                               !.vol = VolFile(num_tracers, Flagged(e, num_tracers)),
                               !.trvol = VolFile(num_tracers, RawVols(e, num_tracers))]
                      ELSE f2,
                      num_non_edge)
        ELSE Progress("go", c2, f2, num_non_edge)

\* ---run the tessellation---
Tessellate(e) ==
    IF e.use_vozisol
    THEN LET c == <<Call("vozisol", Status(e, "vozisol"))>>
             f == IF e.vol_written
                  THEN [NoFiles EXCEPT !.vol = VolFile(num_tracers, Flagged(e, num_tracers)),
                                       !.trvol = VolFile(num_tracers, RawVols(e, num_tracers))]
                  ELSE NoFiles
         IN  Progress(IF f.vol = Missing THEN "exit: tessellation" ELSE "go",
                      c, f, num_non_edge)
    ELSE IF e.fails = "vozinit_noscr"
    THEN Progress("OSError", <<Call("vozinit", 1), Call("scr", -1)>>, NoFiles, num_non_edge)
    ELSE LET c1 == <<Call("vozinit", Status(e, "vozinit")), Call("scr", Status(e, "scr"))>>
             vol == IF e.vol_written
                    THEN VolFile(num_part_total, RawVols(e, num_part_total))
                    ELSE Missing
         IN  IF vol = Missing
             THEN Progress("exit: tessellation", c1, NoFiles, num_non_edge)
             ELSE CopyThenCheckEdges(e, c1, vol)

\* modvols == 1.0 / 0.9e30
EdgeMask(modvols) == [i \in 1..Len(modvols) |-> modvols[i] = EdgeVol]

\* a scaling that does not spare the edge cells
ReweightAll(modvols, edgemask, modfactors) ==
    [i \in 1..Len(modvols) |-> modvols[i] * modfactors[i]]

\* modvols[np.logical_not(edgemask)] *= modfactors, one factor a cell
Reweight(modvols, edgemask, modfactors) ==
    [i \in 1..Len(modvols) |->
        IF edgemask[i] THEN modvols[i] ELSE modvols[i] * modfactors[i]]

\* no check for failures
AnyZeroUnchecked(modvols, edgemask) == FALSE

\* np.any(modvols[np.logical_not(edgemask)] == 0)
AnyZero(modvols, edgemask) ==
    \E i \in 1..Len(modvols) : ~edgemask[i] /\ modvols[i] = 0

\* modvols[edgemask] = 0.9e30
ClusterVols(modvols, edgemask) ==
    [i \in 1..Len(modvols) |-> IF edgemask[i] THEN BigVol ELSE modvols[i]]

\* sum(edgemask)
CountEdge(edgemask) == Cardinality({i \in 1..Len(edgemask) : edgemask[i]})

\* selfn(redshifts) of the galaxies
ZFactors(e) == [i \in 1..num_tracers |-> e.selfn[tracers.rows[i][6]]]

\* mask[pixels] of the galaxies, a completeness in percent
AngFactors == [i \in 1..num_tracers |-> mask[Ang2Pix(90 - tracers.rows[i][5], tracers.rows[i][4])]]

\* the completeness scales a volume
AngWeight(modvols, edgemask, modfactors) ==
    [i \in 1..Len(modvols) |->
        IF edgemask[i] THEN modvols[i] ELSE (modvols[i] * modfactors[i]) \div 100]

\* the volumes after Steps 2 to 4 of the survey branch, or how a step ended
\* the call; a weight vector whose length differs from that of the volumes
\* cannot be indexed by edgemask
Reweighting(e, vol) ==
    LET edgemask == EdgeMask(vol.v)
        v2 == Reweight(vol.v, edgemask, [i \in 1..vol.n |-> DensityScale])
    IN  IF AnyZero(v2, edgemask) THEN [pc |-> "exit: zero volume", v |-> v2]
        ELSE IF ~(use_z_wts \/ use_ang_wts) THEN [pc |-> "go", v |-> v2]
        ELSE IF tracers.type = "int" THEN [pc |-> "TypeError", v |-> v2]
        ELSE IF vol.n # num_tracers THEN [pc |-> "IndexError", v |-> v2]
        ELSE LET v3 == IF use_z_wts THEN Reweight(v2, edgemask, ZFactors(e)) ELSE v2
             IN  IF AnyZero(v3, edgemask) THEN [pc |-> "exit: z-weights", v |-> v3]
                 ELSE LET v4 == IF use_ang_wts THEN AngWeight(v3, edgemask, AngFactors)
                                ELSE v3
                      IN  IF AnyZero(v4, edgemask)
                          THEN [pc |-> "exit: angular weights", v |-> v4]
                          ELSE [pc |-> "go", v |-> v4]

\* ---prepare files for running jozov---
Prepare(e, p) ==
    IF p.pc # "go" THEN p
    ELSE IF is_box
    THEN IF e.find_clusters
         THEN Progress("go", Append(p.calls, Call("cp vol c.vol", 0)),
                       [p.files EXCEPT !.cvol = p.files.vol], p.nne)
         ELSE p
    ELSE LET vol == p.files.vol
             edgemask == EdgeMask(vol.v)
         IN  \* bound once: the volumes after the reweighting
             LET w == CHOOSE x \in {Reweighting(e, vol)} : TRUE
             IN  IF w.pc # "go" THEN Progress(w.pc, p.calls, p.files, p.nne)
                 ELSE Progress("go", p.calls,
                               [p.files EXCEPT
                                   !.vol = VolFile(vol.n, w.v),
                                   !.cvol = IF e.find_clusters
                                            THEN VolFile(vol.n, ClusterVols(w.v, edgemask))
                                            ELSE @],
                               num_tracers - CountEdge(edgemask))

\* ---run jozov to perform the void-finding---, and again for clusters
Jozov(e, p) ==
    IF p.pc # "go" THEN p
    ELSE Progress("done",
                  p.calls \o <<Call("jozovtrvol v", 0)>>
                          \o (IF e.find_clusters THEN <<Call("jozovtrvol c", 0)>> ELSE <<>>),
                  p.files, p.nne)

\* the whole call; the survey branch takes the redshifts, right ascensions
\* and declinations of the galaxies by indexing self.tracers, with no check
\* before it
ZobovWrapper ==
    /\ Alive
    /\ posn_file # <<>>
    /\ \E p \in {Jozov(env, Prepare(env, Tessellate(env)))} :
          /\ zw_pc' = p.pc
          /\ calls' = p.calls
          /\ files' = p.files
          /\ num_non_edge' = p.nne
          /\ stage' = StageRecord("zobov_wrapper",
                                  IF p.pc = "done" THEN "ok" ELSE p.pc,
                                  IF p.pc = "done" /\ ~is_box /\ (use_z_wts \/ use_ang_wts)
                                  THEN SkyColumns(tracers) ELSE <<>>)
          /\ tr_pc' = IF p.pc = "TypeError" THEN "TypeError" ELSE tr_pc
    /\ UNCHANGED <<is_box, box_length, tracers, num_tracers, num_mocks,
                   num_part_total, posn_file, table_written, pp_vars, survey_vars,
                   mask, log, env, cat_vars, loop_vars>>

\* a stage makes the presence check and then takes the positions
PositionsStage(name, chk) ==
    /\ tracers' = chk.tracers
    /\ tr_pc' = AfterCheck(chk)
    /\ stage' = IF chk.err # "none" THEN StageRecord(name, chk.err, <<>>)
                ELSE StageRecord(name, "ok", Positions(chk.tracers))

(***************************************************************************)
(* find_void_circumcentres.  Positions are integers and a circumcentre is  *)
(* an exact fraction: three numerators over one positive denominator.      *)
(* Densities are the inverses of the volumes of <handle>.vol and are only  *)
(* compared.  Of a catalogue row the model keeps the void id, the centre   *)
(* (box) or the sky position, redshift, angular radius and edge flag       *)
(* (survey); the redshift is in fortieths, so that it equals the comoving  *)
(* distance, and angles are rounded down to multiples of 45 degrees.       *)
(***************************************************************************)
\* np.sign
Sign(x) == IF x > 0 THEN 1 ELSE IF x < 0 THEN -1 ELSE 0

RECURSIVE Gcd(_, _)
Gcd(a, b) == IF b = 0 THEN Abs(a) ELSE Gcd(Abs(b), Abs(a) % Abs(b))

\* a fraction vector in lowest terms with a positive denominator
Frac(num, den) ==
    LET g == Gcd(Gcd(Gcd(num[1], num[2]), num[3]), den) * Sign(den)
    IN  [num |-> <<num[1] \div g, num[2] \div g, num[3] \div g>>, den |-> den \div g]

\* a void that lacks mutual neighbours keeps the centre of the void before
OnesCentre == [num |-> <<1, 1, 1>>, den |-> 1]

\* np.asarray([0, 0, 0])
ZeroCentre == [num |-> <<0, 0, 0>>, den |-> 1]

\* the integer nearest to a / b between it and zero, b > 0
TruncDiv(a, b) == IF a >= 0 THEN a \div b ELSE -((-a) \div b)

\* assignment of a float vector to the elements of an integer array
Truncated(c) ==
    [num |-> <<TruncDiv(c.num[1], c.den), TruncDiv(c.num[2], c.den),
               TruncDiv(c.num[3], c.den)>>, den |-> 1]

\* l[oldcount:newcount] = vals on a Python list
SliceAssign(l, oldcount, newcount, vals) ==
    SubSeq(l, 1, Min(oldcount, Len(l))) \o vals \o SubSeq(l, Min(newcount, Len(l)) + 1, Len(l))

\* a reader that leaves the reverse adjacencies out
NoReverse(lists, adjpartnumbers, k, i) == lists

\* for index in adjpartnumbers: partadjs[index].append(i)
RECURSIVE AppendReverse(_, _, _, _)
AppendReverse(lists, adjpartnumbers, k, i) ==
    IF k > Len(adjpartnumbers) THEN lists
    ELSE AppendReverse([lists EXCEPT ![adjpartnumbers[k] + 1] = Append(@, i)],
                       adjpartnumbers, k + 1, i)

\* one turn of "load up the adjacencies from ZOBOV output", for tracer i
\* (entry i + 1): the slice assignment, the reverse adjacencies, and the
\* counters, where partadjcount[adjpartnumbers] += 1 adds one to a counter
\* however often its tracer is named
LoadTurn(f, i, lists, counts) ==
    LET adjpartnumbers == f.pairs[i + 1]
        oldcount == counts[i + 1]
        newcount == oldcount + Len(adjpartnumbers)
    IN  IF Len(adjpartnumbers) = 0
        THEN [partadjs |-> lists, partadjcount |-> counts]
        ELSE [partadjs |->
                  AppendReverse([lists EXCEPT ![i + 1] =
                                    SliceAssign(@, oldcount, newcount, adjpartnumbers)],
                                adjpartnumbers, 1, i),
              partadjcount |->
                  [k \in 1..f.n |->
                      IF k = i + 1 /\ i \in SeqToSet(adjpartnumbers) THEN newcount + 1
                      ELSE IF k = i + 1 THEN newcount
                      ELSE IF (k - 1) \in SeqToSet(adjpartnumbers)
                           THEN counts[k] + 1
                      ELSE counts[k]]]

\* "load up the adjacencies from ZOBOV output": the turns from tracer i on
RECURSIVE LoadAdjacencies(_, _, _, _)
LoadAdjacencies(f, i, lists, counts) ==
    IF i >= f.n THEN [partadjs |-> lists, partadjcount |-> counts]
    ELSE LET t == LoadTurn(f, i, lists, counts)
         IN  LoadAdjacencies(f, i + 1, t.partadjs, t.partadjcount)

PartAdjs(f) ==
    LoadAdjacencies(f, 0, [k \in 1..f.n |-> <<>>], [k \in 1..f.n |-> 0]).partadjs

(***************************************************************************)
(* "read and assign adjacencies from ZOBOV output", turn by turn.  adj_pc  *)
(* is the tracer whose record is read next; -1 before the file is opened   *)
(* and -2 after sys.exit.                                                  *)
(***************************************************************************)
OpenAdjacencyFile ==
    /\ adj_pc = -1
    /\ adj_file.n >= 0
    /\ IF adj_file.n # num_tracers
       THEN /\ adj_pc' = -2
            /\ UNCHANGED <<partadjs, partadjcount>>
       ELSE /\ adj_pc' = 0
            /\ partadjs' = [k \in 1..adj_file.n |-> <<>>]
            /\ partadjcount' = [k \in 1..adj_file.n |-> 0]
    /\ UNCHANGED <<pp_vars, tr_vars, store_vars, survey_vars, mask, log, wrapper_vars,
                   cat_vars, vertices, boundary, bnd_pc, completeness_limit, nside,
                   mocks_wanted, rand_pix, upg_pc>>

ReadAdjacencies ==
    /\ adj_pc >= 0
    /\ adj_pc < adj_file.n
    /\ \E t \in {LoadTurn(adj_file, adj_pc, partadjs, partadjcount)} :
          /\ partadjs' = t.partadjs
          /\ partadjcount' = t.partadjcount
    /\ adj_pc' = adj_pc + 1
    /\ UNCHANGED <<pp_vars, tr_vars, store_vars, survey_vars, mask, log, wrapper_vars,
                   cat_vars, vertices, boundary, bnd_pc, completeness_limit, nside,
                   mocks_wanted, rand_pix, upg_pc>>

\* 1. / a < 1. / b, where 1. / 0 is inf
InverseLess(a, b) ==
    IF a = 0 THEN FALSE
    ELSE IF b = 0 THEN TRUE
    ELSE IF Sign(a) = Sign(b) THEN a > b
    ELSE a < 0

\* a choice that takes the first candidate whatever its density is
FirstCandidate(vols, cands, k, best) == best

\* cands[np.argmin(densities[cands])]: the first of the lowest density
RECURSIVE LowestDensity(_, _, _, _)
LowestDensity(vols, cands, k, best) ==
    IF k > Len(cands) THEN best
    ELSE LowestDensity(vols, cands, k + 1,
                       IF InverseLess(vols[cands[k] + 1], vols[best + 1])
                       THEN cands[k] ELSE best)

LowestOf(vols, cands) == LowestDensity(vols, cands, 2, cands[1])

\* a finite set of integers in ascending order
RECURSIVE Ascending(_)
Ascending(S) ==
    IF S = {} THEN <<>>
    ELSE LET m == CHOOSE x \in S : \A y \in S : x <= y
         IN  <<m>> \o Ascending(S \ {m})

\* np.intersect1d
Intersect1d(a, b) == Ascending(SeqToSet(a) \cap SeqToSet(b))

\* "get the 3 lowest density mutually adjacent neighbours of the core
\* particle": the neighbours found, fewer than three when mutualadjs or
\* finaladjs is empty; np.argmin of an empty coreadjs raises ValueError
Neighbours(adjs, vols, core) ==
    LET coreadjs == adjs[core + 1]
    IN  IF Len(coreadjs) = 0 THEN [err |-> "ValueError", nbrs |-> <<>>]
        ELSE LET first_nbr == LowestOf(vols, coreadjs)
                 mutualadjs == Intersect1d(coreadjs, adjs[first_nbr + 1])
             IN  IF Len(mutualadjs) = 0 THEN [err |-> "none", nbrs |-> <<first_nbr>>]
                 ELSE LET second_nbr == LowestOf(vols, mutualadjs)
                          finaladjs == Intersect1d(mutualadjs, adjs[second_nbr + 1])
                      IN  IF Len(finaladjs) = 0
                          THEN [err |-> "none", nbrs |-> <<first_nbr, second_nbr>>]
                          ELSE [err |-> "none",
                                nbrs |-> <<first_nbr, second_nbr, LowestOf(vols, finaladjs)>>]

\* "get adjacencies of the core particle" and "get the 3 lowest density
\* mutually adjacent neighbours of the core particle" for one void, whose
\* core may be any tracer, once the adjacency lists are read
FindNeighbours ==
    /\ adj_pc >= 0
    /\ adj_pc = adj_file.n
    /\ vertices.core = -1
    /\ files.vol.n = num_tracers
    /\ \E core \in 0..(num_tracers - 1) :
       \E nb \in {Neighbours(partadjs, files.vol.v, core)} :
          vertices' = [core |-> core, err |-> nb.err, nbrs |-> nb.nbrs]
    /\ UNCHANGED <<pp_vars, tr_vars, store_vars, survey_vars, mask, log, wrapper_vars,
                   cat_vars, partadjs, partadjcount, adj_pc, boundary, bnd_pc,
                   completeness_limit, nside, mocks_wanted, rand_pix, upg_pc>>

\* "need to adjust for periodic BC": one coordinate of a vertex against the
\* same coordinate of the core
PeriodicShift(x0, x, L) ==
    IF 2 * Abs(x0 - x) > L THEN x + L * Sign(x0 - x) ELSE x

\* the positions of the four vertices, the core first
VertexPos(positions, core, nbrs, box, L) ==
    LET v0 == positions[core + 1]
    IN  <<v0>> \o [k \in 1..3 |->
                     LET v == positions[nbrs[k] + 1]
                     IN  IF box THEN [c \in 1..3 |-> PeriodicShift(v0[c], v[c], L)]
                         ELSE v]

Det3(a, b, c) ==
      a[1] * (b[2] * c[3] - b[3] * c[2])
    - a[2] * (b[1] * c[3] - b[3] * c[1])
    + a[3] * (b[1] * c[2] - b[2] * c[1])

\* a matrix of three rows with column c replaced by the vector r
WithColumn(m, c, r) == [k \in 1..3 |-> [m[k] EXCEPT ![c] = r[k]]]

\* "solve for the circumcentre": the point at one distance from the four
\* vertices, by Cramer's rule from the core; den = 0 when the vertices lie in
\* one plane and np.linalg.solve has a singular matrix
Circumcentre(vertex_pos) ==
    LET v0 == vertex_pos[1]
        m == [k \in 1..3 |-> [c \in 1..3 |-> 2 * (vertex_pos[k + 1][c] - v0[c])]]
        r == [k \in 1..3 |->
                (vertex_pos[k + 1][1] - v0[1]) * (vertex_pos[k + 1][1] - v0[1])
              + (vertex_pos[k + 1][2] - v0[2]) * (vertex_pos[k + 1][2] - v0[2])
              + (vertex_pos[k + 1][3] - v0[3]) * (vertex_pos[k + 1][3] - v0[3])]
        den == Det3(m[1], m[2], m[3])
        n(c) == LET w == WithColumn(m, c, r) IN Det3(w[1], w[2], w[3])
    IN  IF den = 0 THEN [num |-> <<0, 0, 0>>, den |-> 0]
        ELSE Frac(<<v0[1] * den + n(1), v0[2] * den + n(2), v0[3] * den + n(3)>>, den)

\* "put centre coords back within the fiducial box if they have leaked out",
\* on the numerator of one coordinate
WrapCentre(x, den, L) ==
    IF x < 0 \/ x > L * den THEN x - L * den * Sign(x) ELSE x

WrapIntoBox(c, L) ==
    [num |-> <<WrapCentre(c.num[1], c.den, L), WrapCentre(c.num[2], c.den, L),
               WrapCentre(c.num[3], c.den, L)>>, den |-> c.den]

\* np.degrees(np.arctan2(y, x)), rounded down to a multiple of 45
ArcTan2Deg(y, x) ==
    IF y = 0 THEN (IF x >= 0 THEN 0 ELSE 180)
    ELSE IF y > 0
    THEN (IF x > 0 THEN (IF y >= x THEN 45 ELSE 0)
          ELSE IF x = 0 THEN 90
          ELSE IF y > -x THEN 90 ELSE 135)
    ELSE (IF x < 0 THEN (IF y <= x THEN -135 ELSE -180)
          ELSE IF x = 0 THEN -90
          ELSE IF -y > x THEN -90 ELSE -45)

\* np.degrees(np.arccos(z / rdist)) on multiples of 45, from the signs
ArcCosDeg(obs) ==
    IF obs[3] = 0 THEN 90
    ELSE IF obs[1] = 0 /\ obs[2] = 0 THEN (IF obs[3] > 0 THEN 0 ELSE 180)
    ELSE IF obs[3] > 0 THEN 45 ELSE 135

\* the largest integer whose square is at most n
RECURSIVE Isqrt(_, _)
Isqrt(n, k) == IF (k + 1) * (k + 1) > n THEN k ELSE Isqrt(n, k + 1)

\* the far limit of the survey is not tested
InRadialRangeNear(rdist2, d2) ==
    rdist2 >= ComovingDistance(z_min) * ComovingDistance(z_min) * d2

\* rdist >= get_comoving_distance(z_min) and rdist <= get_comoving_distance(
\* z_max), on the squares; rdist2 / d2 is the square of rdist
InRadialRange(rdist2, d2) ==
    /\ rdist2 >= ComovingDistance(z_min) * ComovingDistance(z_min) * d2
    /\ rdist2 <= ComovingDistance(z_max) * ComovingDistance(z_max) * d2

\* the sky position written for a centre that fails the fallback check
Flagged2 == [ra |-> -60, dec |-> -60, redshift |-> -40, angrad |-> 0, edge |-> 2]

\* np.degrees(eff_rad / rdist): positive for a void of positive volume
EffAngRad(vol) == IF vol > 0 THEN 1 ELSE 0

\* "calculate the sky coordinates of the void centre (this step also allows
\* fallback check of undetected tessellation leakage)"; the centre c is in
\* box coordinates, L is even
SkyPosition(c, L, vol, edge) ==
    LET obs == [k \in 1..3 |-> 2 * c.num[k] - L * c.den]
        rdist2 == obs[1] * obs[1] + obs[2] * obs[2] + obs[3] * obs[3]
        d2 == 4 * c.den * c.den
    IN  IF InRadialRange(rdist2, d2)
        THEN LET centre_dec == 90 - ArcCosDeg(obs)
                 a == ArcTan2Deg(obs[2], obs[1])
                 centre_ra == IF a < 0 THEN a + 360 ELSE a
             IN  IF mask[Ang2Pix(90 - centre_dec, centre_ra)] = 0 THEN Flagged2
                 ELSE [ra |-> centre_ra, dec |-> centre_dec,
                       redshift |-> Isqrt(rdist2 \div d2, 0),
                       angrad |-> EffAngRad(vol), edge |-> edge]
        ELSE Flagged2

\* the state of the loop over the void cores: whether the array
\* `circumcentre` holds integers, the flags, the rows and the centres so far
CircStart(flags) ==
    [pc |-> "go", ints |-> FALSE, edge_flag |-> flags, rows |-> <<>>, centres |-> <<>>]

\* one turn of the loop, for the row of the list file at index i
CircTurn(st, row, i, adjs, vols, positions) ==
    IF row.core >= Len(adjs) THEN [st EXCEPT !.pc = "IndexError"]
    ELSE LET nb == Neighbours(adjs, vols, row.core)
         IN  IF nb.err # "none" THEN [st EXCEPT !.pc = nb.err]
             ELSE LET failed == Len(nb.nbrs) < 3
                      solved == IF failed THEN ZeroCentre
                                ELSE Circumcentre(VertexPos(positions, row.core, nb.nbrs,
                                                            is_box, box_length))
                      ints == st.ints \/ failed
                      centre == IF failed \/ ~ints \/ solved.den = 0 THEN solved
                                ELSE Truncated(solved)
                      circumcentre == IF is_box /\ centre.den # 0
                                      THEN WrapIntoBox(centre, box_length) ELSE centre
                      flag == IF failed THEN 2 ELSE st.edge_flag[i]
                      sky == IF is_box \/ centre.den = 0 THEN Flagged2
                             ELSE SkyPosition(circumcentre, box_length, row.vol, flag)
                  IN  IF solved.den = 0 THEN [st EXCEPT !.pc = "LinAlgError"]
                      ELSE [pc |-> "go", ints |-> ints,
                            edge_flag |-> [st.edge_flag EXCEPT ![i] =
                                              IF is_box THEN flag ELSE sky.edge],
                            rows |-> Append(st.rows,
                                IF is_box THEN [vid |-> row.vid, centre |-> circumcentre]
                                ELSE [vid |-> row.vid, ra |-> sky.ra, dec |-> sky.dec,
                                      redshift |-> sky.redshift, angrad |-> sky.angrad,
                                      edge |-> sky.edge]),
                            centres |-> Append(st.centres, circumcentre)]

\* "loop over void cores, calculating circumcentres and writing to file"
RECURSIVE CircLoop(_, _, _, _, _, _)
CircLoop(st, rows, i, adjs, vols, positions) ==
    IF i > Len(rows) \/ st.pc # "go" THEN st
    ELSE CircLoop(CircTurn(st, rows[i], i, adjs, vols, positions),
                  rows, i + 1, adjs, vols, positions)

\* the void list file <void_prefix>_list.txt is there once postprocess_voids
\* has tidied its files
VoidListWritten == pp_kind = "void" /\ pp_pc = "tidied"

\* the call ends before the loop
CircStops(how) ==
    /\ cc_pc' = how
    /\ UNCHANGED <<void_cat, circumcentres, edge_flag>>

FindVoidCircumcentres ==
    /\ Alive
    /\ posn_file # <<>>
    /\ IF HeaderCheck(files.vol) # "ok"
       THEN /\ CircStops(HeaderCheck(files.vol))
            /\ UNCHANGED <<tracers, tr_pc, stage>>
       ELSE \E chk \in TracerCheck :
              /\ PositionsStage("find_void_circumcentres", chk)
              /\ IF chk.err # "none" THEN CircStops(chk.err)
                 ELSE IF ~VoidListWritten \/ adj_file.n = -1 THEN CircStops("IOError")
                 ELSE IF adj_file.n # num_tracers THEN CircStops("exit")
                 ELSE \E st \in {CircLoop(CircStart(edge_flag), new_list_file, 1,
                                          PartAdjs(adj_file), files.vol.v,
                                          Positions(chk.tracers))} :
                        IF st.pc # "go" THEN CircStops(st.pc)
                        ELSE /\ cc_pc' = "done"
                             /\ void_cat' = st.rows
                             /\ circumcentres' = st.centres
                             /\ edge_flag' = st.edge_flag
    /\ UNCHANGED <<is_box, box_length, num_tracers, num_mocks, num_part_total,
                   posn_file, table_written, list_file, void_file, pp_pc, pp_kind,
                   sorted_order, new_void_file, new_list_file, num__acc,
                   survey_vars, mask, log, wrapper_vars, loop_vars,
                   adj_file, zone_file, bary_cat, bc_pc>>

\* "get the member zones of the structure": the parse of one line of the
\* output hierarchy file by find_void_barycentres and postprocess_clusters
RECURSIVE MoreMemberZones(_, _, _)
MoreMemberZones(structline, pos, member_zones) ==
    IF ~(Tok(structline, pos) > 0) THEN member_zones
    ELSE LET num_zones_to_add == Tok(structline, pos)
         IN  MoreMemberZones(structline, pos + num_zones_to_add + 2,
                 member_zones
                 \cup SeqToSet(Slice(structline, pos + 2, pos + num_zones_to_add + 2)))

MemberZones(structline) == MoreMemberZones(structline, 1, {Tok(structline, 0)})

(***************************************************************************)
(* find_void_barycentres, with use_stripping at its default False.  The    *)
(* barycentre is an exact fraction over the sum of the member volumes of   *)
(* <handle>.trvol.                                                         *)
(***************************************************************************)
\* np.in1d(zonedata, member_zones): the tracers of the member zones
MemberIds(zonedata, member_zones) ==
    Ascending({j \in 0..(Len(zonedata) - 1) : zonedata[j + 1] \in member_zones})

\* one member coordinate relative to the core, with the periodic shift
\* -np.copysign(self.box_length, member_x) of a box
MemberOffset(x, x0, box, L) ==
    LET d == x - x0
    IN  IF box /\ 2 * Abs(d) > L THEN d - L * (IF d < 0 THEN -1 ELSE 1) ELSE d

\* np.sum(member_x * member_vols) on coordinate c, and np.sum(member_vols)
RECURSIVE WeightedSum(_, _, _, _, _, _)
WeightedSum(ids, k, positions, core, vols, c) ==
    IF k > Len(ids) THEN 0
    ELSE MemberOffset(positions[ids[k] + 1][c], positions[core + 1][c], is_box, box_length)
           * vols[ids[k] + 1]
         + WeightedSum(ids, k + 1, positions, core, vols, c)

RECURSIVE SumVols(_, _, _)
SumVols(ids, k, vols) ==
    IF k > Len(ids) THEN 0 ELSE vols[ids[k] + 1] + SumVols(ids, k + 1, vols)

\* "volume-weighted barycentre of the structure"; without members the sums
\* are over empty arrays and the centre is the core, and a volume sum of 0
\* gives nan (den = 0)
Barycentre(ids, positions, core, vols) ==
    LET v == SumVols(ids, 1, vols)
        p == positions[core + 1]
    IN  IF Len(ids) = 0 THEN [num |-> p, den |-> 1]
        ELSE IF v = 0 THEN [num |-> <<0, 0, 0>>, den |-> 0]
        ELSE Frac([c \in 1..3 |-> p[c] * v + WeightedSum(ids, 1, positions, core, vols, c)], v)

BaryStart(flags) == [pc |-> "go", edge_flag |-> flags, rows |-> <<>>]

\* one turn of the loop over the structures
BaryTurn(st, row, structline, i, zonedata, vols, positions) ==
    IF row.core >= Len(positions) THEN [st EXCEPT !.pc = "IndexError"]
    ELSE LET ids == MemberIds(zonedata, MemberZones(structline))
             found == Barycentre(ids, positions, row.core, vols)
             centre == IF is_box /\ found.den # 0 THEN WrapIntoBox(found, box_length)
                       ELSE found
             sky == IF is_box \/ centre.den = 0 THEN Flagged2
                    ELSE SkyPosition(centre, box_length, SumVols(ids, 1, vols),
                                     st.edge_flag[i])
         IN  [pc |-> "go",
              edge_flag |-> [st.edge_flag EXCEPT ![i] = IF is_box THEN @ ELSE sky.edge],
              rows |-> Append(st.rows,
                  IF is_box THEN [vid |-> row.vid, centre |-> centre]
                  ELSE [vid |-> row.vid, ra |-> sky.ra, dec |-> sky.dec,
                        redshift |-> sky.redshift, angrad |-> sky.angrad,
                        edge |-> sky.edge])]

RECURSIVE BaryLoop(_, _, _, _, _, _, _)
BaryLoop(st, rows, lines, i, zonedata, vols, positions) ==
    IF i > Len(rows) \/ st.pc # "go" THEN st
    ELSE BaryLoop(BaryTurn(st, rows[i], lines[i], i, zonedata, vols, positions),
                  rows, lines, i + 1, zonedata, vols, positions)

\* the call ends before the loop
BaryStops(how) ==
    /\ bc_pc' = how
    /\ UNCHANGED <<bary_cat, edge_flag>>

FindVoidBarycentres ==
    /\ Alive
    /\ posn_file # <<>>
    /\ IF zone_file = <<>>
       THEN /\ BaryStops("IOError")
            /\ UNCHANGED <<tracers, tr_pc, stage>>
       ELSE IF VolumeChecks # "ok"
       THEN /\ BaryStops(VolumeChecks)
            /\ UNCHANGED <<tracers, tr_pc, stage>>
       ELSE \E chk \in TracerCheck :
              /\ PositionsStage("find_void_barycentres", chk)
              /\ IF chk.err # "none" THEN BaryStops(chk.err)
                 ELSE IF ~VoidListWritten THEN BaryStops("IOError")
                 ELSE IF Len(zone_file) # Len(Positions(chk.tracers))
                 THEN BaryStops("IndexError")
                 ELSE \E st \in {BaryLoop(BaryStart(edge_flag), new_list_file,
                                          Tail(new_void_file), 1, zone_file,
                                          files.trvol.v, Positions(chk.tracers))} :
                        IF st.pc # "go" THEN BaryStops(st.pc)
                        ELSE /\ bc_pc' = "done"
                             /\ bary_cat' = st.rows
                             /\ edge_flag' = st.edge_flag
    /\ UNCHANGED <<is_box, box_length, num_tracers, num_mocks, num_part_total,
                   posn_file, table_written, list_file, void_file, pp_pc, pp_kind,
                   sorted_order, new_void_file, new_list_file, num__acc,
                   survey_vars, mask, log, wrapper_vars, loop_vars,
                   adj_file, zone_file, void_cat, circumcentres, cc_pc>>


NextStore ==
    \/ WriteBoxZobov
    \/ DeleteTracerInfo
    \/ RereadTracerInfo
    \/ ZobovWrapper
    \/ FindVoidCircumcentres
    \/ FindVoidBarycentres
    \/ PostprocessClusters

SpecStore == InitStore /\ [][NextStore]_vars

(***************************************************************************)
(* zobov_wrapper on its own, over what the ZOBOV programs can do: the      *)
(* position file has been written, and env is drawn at the start.  A raw   *)
(* volume is 0 or 200, the selection function at redshift 2 is negative,   *)
(* zero or positive (the Savitzky-Golay filter of line 715 can undershoot  *)
(* zero), and the mask is positive on the pixels of the galaxies, as the   *)
(* constructor removed the galaxies on pixels of completeness 0.           *)
(***************************************************************************)
\* a box of n tracers
WrapperBoxRows(n) == [i \in 1..n |-> IF i % 2 = 1 THEN <<0, 10, 20>> ELSE <<30, 5, 15>>]

\* what the ZOBOV programs and the selection function can be
WrapperEnvs ==
    {[use_vozisol |-> uv, find_clusters |-> fc, fails |-> fl, vol_written |-> vw,
      vols |-> [i \in 1..(MaxTracers + 2) |-> IF i = 1 THEN v1 ELSE IF i = 2 THEN v2 ELSE 200],
      edge |-> ed, selfn |-> [z \in 1..2 |-> IF z = 2 THEN sf ELSE 1],
      use_z_wts |-> wz, use_ang_wts |-> wa] :
        uv \in BOOLEAN, fc \in BOOLEAN, wz \in BOOLEAN, wa \in BOOLEAN,
        fl \in {"none", "vozisol", "vozinit", "vozinit_noscr", "scr", "checkedges"},
        vw \in BOOLEAN, v1 \in {0, 200}, v2 \in {0, 200},
        ed \in {{}, {1}, {2}}, sf \in {-1, 0, 1}}

InitWrapper ==
    /\ \/ /\ is_box = TRUE
          /\ \E n \in 1..MaxTracers :
                /\ tracers = Ndarray(3, WrapperBoxRows(n))
                /\ num_tracers = n
                /\ num_mocks = 0
                /\ num_part_total = n
       \/ /\ is_box = FALSE
          /\ \E S \in SUBSET (1..Len(StoreGalaxies)) : \E B \in {<<>>, StoreBuffers} :
                /\ S # {}
                /\ Cardinality(S) <= MaxTracers
                /\ tracers = Ndarray(6, Pick(StoreGalaxies, S, 1) \o B)
                /\ num_tracers = Cardinality(S)
                /\ num_mocks = Len(B)
                /\ num_part_total = Cardinality(S) + Len(B)
    /\ box_length = 30
    /\ tr_pc = "written"
    /\ posn_file = PosnStream(tracers)
    /\ table_written = tracers
    /\ stage = NoStage
    /\ NoSurvey
    /\ \E c \in {50, 100} : mask = [p \in StorePixels |-> IF p = Ang2Pix(90, 0) THEN c ELSE 100]
    /\ log = <<>>
    /\ env \in WrapperEnvs
    /\ files = NoFiles
    /\ calls = <<>>
    /\ zw_pc = "idle"
    /\ num_non_edge = num_tracers
    /\ NoCatalogue
    /\ NoLoops
    /\ NoPostprocess

NextWrapper == ZobovWrapper

SpecWrapper == InitWrapper /\ [][NextWrapper]_vars

(***************************************************************************)
(* postprocess_voids with the two catalogue stages it ends with.  Five     *)
(* tracers: tracer 0 and the tracers at the offsets Offsets from it.  The  *)
(* raw files hold three zones, {0, 3}, {1, 4} and {2}, of which the first  *)
(* two are voids with the core tracers 0 and 1.  A box has the length 10;  *)
(* a survey has the observer in the middle of a box whose length           *)
(* generate_buffer took from the buffer mocks beyond z_max: 2 * 85 + 10    *)
(* with a mock on an axis, 2 * 49 + 10 with mocks on the diagonals only.   *)
(***************************************************************************)
\* the tracers 1 to 4 seen from tracer 0: a regular corner, a flat
\* tetrahedron with a far circumcentre, one with the circumcentre on the
\* other side of its base, and four tracers in one plane
Offsets ==
    {<<<<2, 0, 0>>, <<0, 2, 0>>, <<0, 0, 2>>, <<2, 2, -1>>>>,
     <<<<2, 0, 0>>, <<0, 2, 0>>, <<-3, -3, 1>>, <<2, 2, -1>>>>,
     <<<<2, 0, 0>>, <<0, 2, 0>>, <<1, 1, -1>>, <<2, 2, -1>>>>,
     <<<<2, 0, 0>>, <<0, 2, 0>>, <<2, 2, 0>>, <<2, 2, -1>>>>}

\* the .adj files: all of tracers 0 to 3 adjacent, tracer 0 adjacent to
\* tracer 2 alone, and tracer 0 short of a third mutual neighbour
AdjFiles ==
    {<<<<1, 2, 3>>, <<2, 3>>, <<3>>, <<>>, <<0>>>>,
     <<<<2>>, <<2, 3, 4>>, <<3, 4>>, <<4>>, <<>>>>,
     <<<<1, 2>>, <<2, 3, 4>>, <<3, 4>>, <<4>>, <<>>>>}

\* the Voronoi volumes of the five tracers
CentreVols == {<<200, 200, 200, 200, 200>>, <<200, 100, 300, 100, 400>>}

\* the pixels of the sky of SkyPosition
CentrePixels == {Ang2Pix(t, f * 45) : t \in {0, 45, 90, 135, 180}, f \in 0..7}

\* the sky pixel of a position seen from the observer
PixelOf(obs) ==
    LET a == ArcTan2Deg(obs[2], obs[1])
    IN  Ang2Pix(ArcCosDeg(obs), IF a < 0 THEN a + 360 ELSE a)

\* a row of the survey table: box coordinates, RA, Dec and redshift
SurveyRow(obs, L) ==
    LET pix == PixelOf(obs)
    IN  <<obs[1] + L \div 2, obs[2] + L \div 2, obs[3] + L \div 2, pix.phi, 90 - pix.theta,
          Isqrt(obs[1] * obs[1] + obs[2] * obs[2] + obs[3] * obs[3], 0) \div 40>>

\* a buffer mock or guard particle in box coordinates
MockAt(pos) == <<pos[1], pos[2], pos[3], -60, -60, -1>>

\* the k-th tracer seen from tracer 0
Offset(off, k) == IF k = 0 THEN <<0, 0, 0>> ELSE off[k]

InitCentres ==
    /\ \E off \in Offsets :
       \/ /\ is_box = TRUE
          /\ box_length = 10
          /\ \E v0 \in {<<1, 1, 1>>, <<9, 1, 1>>, <<1, 1, 8>>} :
                tracers = Ndarray(3, [k \in 1..5 |->
                              [c \in 1..3 |-> (v0[c] + Offset(off, k - 1)[c]) % 10]])
          /\ num_mocks = 0
          /\ num_part_total = 5
          /\ z_min = 0
          /\ mask = <<>>
       \/ /\ is_box = FALSE
          /\ \E v0 \in {<<50, 3, 0>>, <<3, -50, 0>>, <<79, 3, 0>>} : \E L \in {108, 180} :
                /\ box_length = L
                /\ \A k \in 0..4 : \A c \in 1..3 :
                      2 * Abs(v0[c] + Offset(off, k)[c]) + 10 <= L
                /\ tracers = Ndarray(6,
                       [k \in 1..5 |->
                           SurveyRow([c \in 1..3 |-> v0[c] + Offset(off, k - 1)[c]], L)]
                       \o (IF L = 180
                           THEN <<MockAt(<<175, 90, 90>>), MockAt(<<90, 5, 90>>),
                                  MockAt(<<90, 90, 175>>), MockAt(<<1, 1, 1>>)>>
                           ELSE <<MockAt(<<103, 103, 103>>), MockAt(<<5, 5, 103>>),
                                  MockAt(<<103, 5, 5>>), MockAt(<<1, 1, 1>>)>>))
          /\ num_mocks = 4
          /\ num_part_total = 9
          /\ z_min \in {0, 1}
          /\ \E dark \in {{}, {Ang2Pix(45, 0)}, {Ang2Pix(45, 270)}} :
                mask = [p \in CentrePixels |-> IF p \in dark THEN 0 ELSE 100]
          /\ \A k \in 1..5 : mask[Ang2Pix(90 - tracers.rows[k][5], tracers.rows[k][4])] # 0
          /\ \A k \in 1..5 : z_min <= tracers.rows[k][6] /\ tracers.rows[k][6] <= z_max
    /\ num_tracers = 5
    /\ tr_pc = "written"
    /\ posn_file = PosnStream(tracers)
    /\ table_written = tracers
    /\ stage = NoStage
    /\ f_sky = 100
    /\ r_near = ComovingDistance(z_min)
    /\ r_far = ComovingDistance(z_max)
    /\ survey_pix = {}
    /\ buffers = <<>>
    /\ num_guard_mocks = 0
    /\ log = <<>>
    /\ env = BenignEnv
    /\ calls = <<>>
    /\ zw_pc = "idle"
    /\ num_non_edge = num_tracers
    /\ \E v \in CentreVols :
          files = [vol |-> VolFile(5, v), trvol |-> VolFile(5, v), cvol |-> VolFile(5, v)]
    /\ \E a \in AdjFiles : adj_file = [n |-> 5, pairs |-> a]
    /\ zone_file = <<0, 1, 2, 0, 1>>
    /\ void_cat = <<>>
    /\ bary_cat = <<>>
    /\ circumcentres = <<>>
    /\ cc_pc = "idle"
    /\ bc_pc = "idle"
    /\ NoLoops
    /\ \E e1, e2 \in {0, 1} : \E d \in {<<1, 2>>, <<2, 1>>} : \E sh \in {1, 3} :
          LET ch == <<[edge |-> e1, dn |-> <<d[1], 2>>, shape |-> sh],
                      [edge |-> e2, dn |-> <<d[2], 2>>, shape |-> 1],
                      [edge |-> 0, dn |-> <<2, 1>>, shape |-> 1]>>
          IN  /\ list_file = [i \in 1..3 |-> RawRow(i, i - 1, ch[i])]
              /\ void_file = <<<<3>>>> \o [i \in 1..3 |-> Shape(i - 1, ch[i].shape).line]
    /\ pp_pc = "raw"
    /\ pp_kind = "none"
    /\ sorted_order = <<>>
    /\ new_void_file = <<>>
    /\ new_list_file = <<>>
    /\ edge_flag = <<>>
    /\ num__acc = 0

\* postprocess_voids calls find_void_circumcentres when it has tidied its
\* files, and find_void_barycentres after it
NextCentres ==
    \/ PostprocessVoids
    \/ TidyFiles
    \/ (cc_pc = "idle" /\ VoidListWritten /\ FindVoidCircumcentres)
    \/ (cc_pc = "done" /\ bc_pc = "idle" /\ FindVoidBarycentres)

SpecCentres == InitCentres /\ [][NextCentres]_vars

(***************************************************************************)
(* The adjacency files the reader is followed on: four tracers, and each   *)
(* of the six pairs absent, named in the record of one of its tracers, or  *)
(* named in both records.  A record names its tracers in ascending order.  *)
(***************************************************************************)
AdjPairs == {<<i, j>> : i \in 0..3, j \in 0..3} \ {<<i, i>> : i \in 0..3}

\* the file whose record of i names j for the pairs <<i, j>> of enc
AdjFileOf(enc) ==
    [n |-> 4, pairs |-> [k \in 1..4 |-> Ascending({j \in 0..3 : <<k - 1, j>> \in enc})]]

\* the Voronoi volumes of the four tracers
AdjacencyVols ==
    {<<200, 200, 200, 200>>, <<100, 200, 300, 400>>, <<400, 300, 200, 100>>,
     <<200, 100, 200, 300>>}

InitAdjacency ==
    /\ BoxOfFour
    /\ env = BenignEnv
    /\ \E v \in AdjacencyVols :
          files = [vol |-> VolFile(4, v), trvol |-> VolFile(4, v), cvol |-> VolFile(4, v)]
    /\ calls = <<>>
    /\ zw_pc = "idle"
    /\ NoPostprocess
    /\ NoLoops
    /\ \E enc \in SUBSET AdjPairs : adj_file = AdjFileOf(enc)
    /\ zone_file = <<0, 0, 1, 1>>
    /\ void_cat = <<>>
    /\ bary_cat = <<>>
    /\ circumcentres = <<>>
    /\ cc_pc = "idle"
    /\ bc_pc = "idle"

NextAdjacency == OpenAdjacencyFile \/ ReadAdjacencies \/ FindNeighbours

SpecAdjacency == InitAdjacency /\ [][NextAdjacency]_vars

(***************************************************************************)
(* The survey constructor from the call of generate_buffer on.  Lengths    *)
(* are in tenths of the length unit (the "+ 1." of the box length is 10,   *)
(* the 0.1 margin of the guard grid is 1), angles in degrees on multiples  *)
(* of 45, with sines and cosines in tenths.  generate_buffer is             *)
(* followed step by step: the three layers of buffer mocks, then the box   *)
(* length, the guards and the joining of the buffers to the tracers.       *)
(***************************************************************************)
\* self.tracer_dens ** (-1. / 3), and its product with
\* self.mock_dens_ratio ** (-1. / 3)
mean_nn_distance == 20
LayerGap == 10

\* np.cos and np.sin of an angle on the multiples of 45 degrees, in tenths:
\* 10 for 1, 7 for the square root of 1/2
CosDeg(a) ==
    CASE a % 360 = 0 -> 10
      [] a % 360 \in {45, 315} -> 7
      [] a % 360 \in {135, 225} -> -7
      [] a % 360 = 180 -> -10
      [] OTHER -> 0

SinDeg(a) == CosDeg(a + 270)

\* coords_radecz2std, for one galaxy
RaDecZ2Std(ra, dec, redshift) ==
    LET rdist == ComovingDistance(redshift)
        phi == ra
        theta == 90 - dec
    IN  <<(rdist * SinDeg(theta) * CosDeg(phi)) \div 100,
          (rdist * SinDeg(theta) * SinDeg(phi)) \div 100,
          (rdist * CosDeg(theta)) \div 10,
          ra, dec, redshift>>

\* "convert to standard format": one buffer mock at distance rdist in the
\* direction (theta, phi) of its pixel
MockRow(rdist, pixel) ==
    <<(rdist * SinDeg(pixel.theta) * CosDeg(pixel.phi)) \div 100,
      (rdist * SinDeg(pixel.theta) * SinDeg(pixel.phi)) \div 100,
      (rdist * CosDeg(pixel.theta)) \div 10,
      pixel.phi, 90 - pixel.theta, -1>>

\* a Healpix pixel is the direction of its centre and its index among the
\* pixels that share that direction once the map has been upgraded: the four
\* children of a pixel keep the direction of their parent
MaskPix == {[theta |-> 90, phi |-> 0, sub |-> 0], [theta |-> 90, phi |-> 45, sub |-> 0]}

\* np.nonzero of the map find_mask_boundary returns
BoundaryPix == {[theta |-> 180, phi |-> 0, sub |-> 0]}

\* the non-zero pixels of hp.ud_grade(mask, 2 * nside)
UdGrade(pix) == {[p EXCEPT !.sub = 4 * p.sub + c] : p \in pix, c \in 0..3}

\* "more mock posns required than mask pixels, so upgrade mask"
RECURSIVE UpgradeWhile(_, _)
UpgradeWhile(pix, num_mocks_wanted) ==
    IF num_mocks_wanted > Cardinality(pix)
    THEN UpgradeWhile(UdGrade(pix), num_mocks_wanted)
    ELSE pix

\* survey_pix[random.sample(np.arange(numpix), n)]: n different pixels in any order
RandomSample(pix, n) ==
    {s \in [1..n -> pix] : \A i, j \in 1..n : s[i] = s[j] => i = j}

\* the radii (r_low ** 3 + (r_high ** 3 - r_low ** 3) * np.random.rand()) ** (1. / 3)
\* that the model draws: the inner edge of the layer and its middle
Radii(r_low, r_high) == {r_low, (r_low + r_high) \div 2}

\* one layer of n mocks drawn on the pixels pix between r_low and r_high
MockLayers(n, pix, r_low, r_high) ==
    {[rows |-> [i \in 1..n |-> MockRow(rdist[i], pixs[i])], rdist |-> rdist] :
        pixs \in RandomSample(pix, n), rdist \in [1..n -> Radii(r_low, r_high)]}

\* survey galaxies after the cuts, in the order np.unique leaves them
SurveyGalaxies ==
    <<RaDecZ2Std(45, 0, 1), RaDecZ2Std(0, 0, 1),
      RaDecZ2Std(45, 0, 2), RaDecZ2Std(0, 0, 2)>>

InitBuffer ==
    /\ is_box = FALSE
    /\ \E S \in SUBSET (1..Len(SurveyGalaxies)) :
          /\ S # {}
          /\ Cardinality(S) <= MaxTracers
          /\ tracers = Ndarray(6, Pick(SurveyGalaxies, S, 1))
          /\ num_tracers = Cardinality(S)
    /\ z_min \in {0, 1}
    /\ f_sky \in {50, 100}
    /\ r_near = ComovingDistance(z_min)
    /\ r_far = ComovingDistance(z_max)
    /\ survey_pix = {}
    /\ buffers = <<>>
    /\ num_guard_mocks = 0
    /\ box_length = 0
    /\ num_mocks = 0
    /\ num_part_total = 0
    /\ tr_pc = "cut"
    /\ posn_file = <<>>
    /\ table_written = IntZero
    /\ stage = NoStage
    /\ NoRun
    /\ num_non_edge = 0
    /\ NoCatalogue
    /\ NoLoops
    /\ NoPostprocess

\* Step 1: buffer particles along the high-redshift cap
HighRedshiftCap ==
    /\ tr_pc = "cut"
    /\ LET z_high == Max(MaxOf(Column(tracers, 5)), z_max)
           r_low == ComovingDistance(z_high) + LayerGap
           r_high == r_low + mean_nn_distance
       IN  \E num_high_mocks \in 1..MaxMocks :
             LET pix == UpgradeWhile(MaskPix, num_high_mocks)
             IN  \E high_mocks \in MockLayers(num_high_mocks, pix, r_low, r_high) :
                   /\ survey_pix' = pix
                   /\ r_far' = MaxOf(high_mocks.rdist)
                   /\ buffers' = high_mocks.rows
                   /\ num_mocks' = num_high_mocks
    /\ tr_pc' = "high"
    /\ UNCHANGED <<is_box, box_length, tracers, num_tracers, num_part_total,
                   z_min, f_sky, r_near, num_guard_mocks, store_vars, pp_vars, run_vars>>

\* Step 2: buffer particles along the low-redshift cap
LowRedshiftCap ==
    /\ tr_pc = "high"
    /\ LET z_low == Min(MinOf(Column(tracers, 5)), z_min)
           r_high0 == ComovingDistance(z_low) - LayerGap
           r_low0 == r_high0 - mean_nn_distance
           r_high == IF r_high0 < 0 THEN ComovingDistance(z_low) ELSE r_high0
           r_low == IF r_low0 < 0 THEN 0 ELSE r_low0
       IN  IF z_low > 0
           THEN \E num_low_mocks \in 1..MaxMocks :
                  LET pix == UpgradeWhile(survey_pix, num_low_mocks)
                  IN  \E low_mocks \in MockLayers(num_low_mocks, pix, r_low, r_high) :
                        /\ survey_pix' = pix
                        /\ r_near' = MinOf(low_mocks.rdist)
                        /\ buffers' = buffers \o low_mocks.rows
                        /\ num_mocks' = num_mocks + num_low_mocks
           ELSE UNCHANGED <<survey_pix, r_near, buffers, num_mocks>>
    /\ tr_pc' = "low"
    /\ UNCHANGED <<is_box, box_length, tracers, num_tracers, num_part_total,
                   z_min, f_sky, r_far, num_guard_mocks, store_vars, pp_vars, run_vars>>

\* Step 3: buffer particles along the survey edges
SurveyEdges ==
    /\ tr_pc = "low"
    /\ IF f_sky < 100
       THEN \E num_bound_mocks \in 1..MaxMocks :
              LET boundary_pix == UpgradeWhile(BoundaryPix, num_bound_mocks)
              IN  \E bound_mocks \in MockLayers(num_bound_mocks, boundary_pix,
                                                r_near, r_far) :
                    /\ buffers' = buffers \o bound_mocks.rows
                    /\ num_mocks' = num_mocks + num_bound_mocks
       ELSE UNCHANGED <<buffers, num_mocks>>
    /\ tr_pc' = "edges"
    /\ UNCHANGED <<is_box, box_length, tracers, num_tracers, num_part_total,
                   z_min, f_sky, r_near, r_far, survey_pix, num_guard_mocks,
                   store_vars, pp_vars, run_vars>>

\* np.max(np.abs(buffers[:, :3]))
MaxAbsPosition(rows) ==
    MaxOf([i \in 1..Len(rows) |->
              Max(Abs(rows[i][1]), Max(Abs(rows[i][2]), Abs(rows[i][3])))])

\* self.box_length = 2.0 * np.max(np.abs(buffers[:, :3])) + 1.
BoxLengthOf(rows) == 2 * MaxAbsPosition(rows) + 10

\* the guard grid without its margin: from 0 to box_length
LinspaceNoMargin(L, k) == (k * L) \div (GuardGrid - 1)

\* np.linspace(0.1, box_length - 0.1, GuardGrid), by 0-based index
Linspace(L, k) == 1 + (k * (L - 2)) \div (GuardGrid - 1)

\* np.vstack(np.meshgrid(x, x, x)).reshape(3, -1).T: the grid points in the
\* order of the flattened meshgrid, the third coordinate running fastest,
\* then the first, then the second
GuardGridPoints(L) ==
    [m \in 1..(GuardGrid * GuardGrid * GuardGrid) |->
        LET i == (m - 1) \div (GuardGrid * GuardGrid)
            j == ((m - 1) \div GuardGrid) % GuardGrid
            k == (m - 1) % GuardGrid
        IN  <<Linspace(L, j), Linspace(L, i), Linspace(L, k)>>]

\* squared distance in the periodic box of the cKDTree
PeriodicDist2(a, b, L) ==
    LET d(c) == Min(Abs(a[c] - b[c]), L - Abs(a[c] - b[c]))
    IN  d(1) * d(1) + d(2) * d(2) + d(3) * d(3)

\* nn_dist > (box_length - 0.2) / GuardGrid, both sides squared
FarFromAll(g, all_positions, L) ==
    \A i \in 1..Len(all_positions) :
        GuardGrid * GuardGrid * PeriodicDist2(g, all_positions[i], L)
        > (L - 2) * (L - 2)

RECURSIVE KeepIf(_, _, _, _)
KeepIf(guards, m, all_positions, L) ==
    IF m > Len(guards) THEN <<>>
    ELSE (IF FarFromAll(guards[m], all_positions, L) THEN <<guards[m]>> ELSE <<>>)
         \o KeepIf(guards, m + 1, all_positions, L)

\* a guard back in observer coordinates, in standard format
GuardRowNoSentinel(g, L) ==
    <<g[1] - L \div 2, g[2] - L \div 2, g[3] - L \div 2, 0, 0, -1>>

GuardRow(g, L) ==
    <<g[1] - L \div 2, g[2] - L \div 2, g[3] - L \div 2, -60, -60, -1>>

\* np.vstack([...])[:, :3] + box_length / 2.: positions in box coordinates
RECURSIVE ToBoxCoordinates(_, _)
ToBoxCoordinates(rows, half) ==
    IF rows = <<>> THEN <<>>
    ELSE <<<<Head(rows)[1] + half, Head(rows)[2] + half, Head(rows)[3] + half>>>>
         \o ToBoxCoordinates(Tail(rows), half)

\* cKDTree(all_positions, boxsize=L) accepts only data inside the periodic
\* box: it raises ValueError for a coordinate below 0, or at or above L
InPeriodicBox(all_positions, L) ==
    \A i \in 1..Len(all_positions) : \A c \in 1..3 :
        0 <= all_positions[i][c] /\ all_positions[i][c] < L

\* the box length, Step 4 (guard buffers to stabilize the tessellation), and
\* the joining of the buffers to the tracers; each local of the code is bound
\* to its value once.  The box length is assigned before the tree is built,
\* and stays when the tree refuses the positions.
GuardBuffers ==
    /\ tr_pc = "edges"
    /\ \E L \in {BoxLengthOf(buffers)} :
       \E all_positions \in {ToBoxCoordinates(tracers.rows \o buffers, L \div 2)} :
         IF InPeriodicBox(all_positions, L)
         THEN \E guards \in {KeepIf(GuardGridPoints(L), 1, all_positions, L)} :
              \E guard_mocks \in {[m \in 1..Len(guards) |-> GuardRow(guards[m], L)]} :
                 /\ box_length' = L
                 /\ num_guard_mocks' = Len(guards)
                 /\ buffers' = buffers \o guard_mocks
                 /\ num_mocks' = num_mocks + Len(guards)
                 /\ tracers' = Ndarray(6, tracers.rows \o buffers \o guard_mocks)
                 /\ num_part_total' = num_tracers + num_mocks + Len(guards)
                 /\ tr_pc' = "buffered"
         ELSE /\ box_length' = L
              /\ tr_pc' = "ValueError"
              /\ UNCHANGED <<num_guard_mocks, buffers, num_mocks, tracers,
                             num_part_total>>
    /\ UNCHANGED <<is_box, num_tracers, z_min, f_sky, r_near, r_far, survey_pix,
                   store_vars, pp_vars, run_vars>>

\* "shift Cartesian positions from observer to box coordinates"
ShiftToBox ==
    /\ tr_pc = "buffered"
    /\ tracers' = Ndarray(6, [i \in 1..Len(tracers.rows) |->
                                 [k \in 1..6 |->
                                     IF k <= 3
                                     THEN tracers.rows[i][k] + box_length \div 2
                                     ELSE tracers.rows[i][k]]])
    /\ tr_pc' = "constructed"
    /\ UNCHANGED <<is_box, box_length, num_tracers, num_mocks, num_part_total,
                   survey_vars, store_vars, pp_vars, run_vars>>

NextBuffer ==
    \/ HighRedshiftCap
    \/ LowRedshiftCap
    \/ SurveyEdges
    \/ GuardBuffers
    \/ ShiftToBox

SpecBuffer == InitBuffer /\ [][NextBuffer]_vars

(***************************************************************************)
(* find_mask_boundary, turn by turn, on a patch of sky.  The map of the    *)
(* mask file is a strip of StripLen pixels; hp.ud_grade splits each of     *)
(* them in 2 x 2 pixels of the working map, which has two rows of          *)
(* 2 * StripLen pixels, numbered from 0 row after row.  A pixel at the rim *)
(* of the patch lacks neighbours, as the eight pixels of the sphere that   *)
(* have seven neighbours do, and hp.get_all_neighbours gives -1 for them.  *)
(* The arrays are sequences: pixel p is element p + 1.                     *)
(***************************************************************************)
\* number of pixels of the map of the mask file
StripLen == 5

\* the resolution of the working map: mask = hp.ud_grade(mask, 512)
WorkingNside == 512

\* range(2 + nside / 128)
Turns == 2 + WorkingNside \div 128

FineCols == 2 * StripLen

NPix == 2 * FineCols

\* hp.ud_grade(mask, 512): a pixel of the working map has the value of the
\* pixel of the file map it lies in
UdGrade512(m) == [q \in 1..NPix |-> m[((q - 1) % FineCols) \div 2 + 1]]

\* the directions of hp.get_all_neighbours: SW, W, NW, N, NE, E, SE, S as
\* steps in row and column
Directions ==
    <<<<1, -1>>, <<0, -1>>, <<-1, -1>>, <<-1, 0>>, <<-1, 1>>, <<0, 1>>, <<1, 1>>, <<1, 0>>>>

\* hp.get_all_neighbours(nside, theta, phi) at the centre of pixel p
GetAllNeighbours(p) ==
    [k \in 1..8 |->
        LET r == p \div FineCols + Directions[k][1]
            c == (p % FineCols) + Directions[k][2]
        IN  IF r \in 0..1 /\ c \in 0..(FineCols - 1) THEN r * FineCols + c ELSE -1]

\* neigh_pix[(mask[neigh_pix[:, i]] <= completeness_limit)
\*           & (neigh_pix[:, i] > -1) & (boundary[neigh_pix[:, i]] == 0), i]
\* for the filled pixel p of column i
Outsiders(m, limit, b, p) ==
    {n \in SeqToSet(GetAllNeighbours(p)) : n > -1 /\ m[n + 1] <= limit /\ b[n + 1] = 0}

\* a loop that gives the first ring the value of the other rings
RingValueOne(j) == 1

\* if j == 0: boundary[outsiders] = 2 else: boundary[outsiders] = 1
RingValue(j) == IF j = 0 THEN 2 ELSE 1

\* for i in range(neigh_pix.shape[1]), from column i on
RECURSIVE MarkOutsiders(_, _, _, _, _, _)
MarkOutsiders(m, limit, b, filled_inds, i, j) ==
    IF i > Len(filled_inds) THEN b
    ELSE LET outsiders == Outsiders(m, limit, b, filled_inds[i])
         IN  MarkOutsiders(m, limit,
                           [q \in 1..Len(b) |->
                               IF (q - 1) \in outsiders THEN RingValue(j) ELSE b[q]],
                           filled_inds, i + 1, j)

\* np.nonzero(mask > completeness_limit)[0] for j = 0, np.nonzero(boundary)[0]
\* after it
FilledInds(m, limit, b, j) ==
    IF j = 0 THEN Ascending({p \in 0..(Len(m) - 1) : m[p + 1] > limit})
    ELSE Ascending({p \in 0..(Len(b) - 1) : b[p + 1] # 0})

\* the call up to its loop, for any completeness_limit
FindMaskBoundary ==
    /\ bnd_pc = -1
    /\ \E limit \in {0, 50} : completeness_limit' = limit
    /\ boundary' = [q \in 1..NPix |-> 0]
    /\ bnd_pc' = 0
    /\ UNCHANGED <<pp_vars, tr_vars, store_vars, survey_vars, mask, log, wrapper_vars,
                   cat_vars, partadjs, partadjcount, adj_pc, vertices, nside,
                   mocks_wanted, rand_pix, upg_pc>>

\* one turn of "find pixels outside the mask that neighbour pixels within it"
BoundaryTurn ==
    /\ bnd_pc >= 0
    /\ bnd_pc < Turns
    /\ \E m \in {UdGrade512(mask)} :
          boundary' = MarkOutsiders(m, completeness_limit, boundary,
                                    FilledInds(m, completeness_limit, boundary, bnd_pc),
                                    1, bnd_pc)
    /\ bnd_pc' = bnd_pc + 1
    /\ UNCHANGED <<pp_vars, tr_vars, store_vars, survey_vars, mask, log, wrapper_vars,
                   cat_vars, partadjs, partadjcount, adj_pc, vertices,
                   completeness_limit, nside, mocks_wanted, rand_pix, upg_pc>>

\* boundary[boundary == 2] = 0 and the return; nside is 512, so the map is
\* not upgraded to 128
ReturnBoundary ==
    /\ bnd_pc = Turns
    /\ boundary' = [q \in 1..Len(boundary) |-> IF boundary[q] = 2 THEN 0 ELSE boundary[q]]
    /\ bnd_pc' = Turns + 1
    /\ UNCHANGED <<pp_vars, tr_vars, store_vars, survey_vars, mask, log, wrapper_vars,
                   cat_vars, partadjs, partadjcount, adj_pc, vertices,
                   completeness_limit, nside, mocks_wanted, rand_pix, upg_pc>>

\* a survey after the cuts of the constructor, before generate_buffer
SurveyAfterCuts ==
    /\ is_box = FALSE
    /\ tracers = Ndarray(6, SurveyGalaxies)
    /\ num_tracers = Len(SurveyGalaxies)
    /\ z_min = 0
    /\ f_sky = 50
    /\ r_near = ComovingDistance(z_min)
    /\ r_far = ComovingDistance(z_max)
    /\ survey_pix = {}
    /\ buffers = <<>>
    /\ num_guard_mocks = 0
    /\ box_length = 0
    /\ num_mocks = 0
    /\ num_part_total = 0
    /\ tr_pc = "cut"
    /\ posn_file = <<>>
    /\ table_written = IntZero
    /\ stage = NoStage
    /\ log = <<>>
    /\ NoWrapper
    /\ num_non_edge = 0
    /\ NoCatalogue
    /\ NoPostprocess

\* the map of the mask file: any completeness on any pixel
InitBoundary ==
    /\ SurveyAfterCuts
    /\ mask \in [1..StripLen -> {0, 50, 100}]
    /\ NoLoops

NextBoundary == FindMaskBoundary \/ BoundaryTurn \/ ReturnBoundary

SpecBoundary == InitBoundary /\ [][NextBoundary]_vars

(***************************************************************************)
(* The loops of generate_buffer that upgrade a map until it has a pixel    *)
(* for every mock, step by step.  survey_pix holds the non-zero pixels of  *)
(* the map (survey_pix or boundary_pix of the code), nside its resolution  *)
(* and mocks_wanted the number of mocks (num_high_mocks, num_low_mocks or  *)
(* num_bound_mocks).                                                       *)
(***************************************************************************)
\* largest number of mocks wanted for one layer
MaxWanted == 5

\* number of upgrades the model follows
MaxUpgrades == 3

RECURSIVE Pow2(_)
Pow2(k) == IF k = 0 THEN 1 ELSE 2 * Pow2(k - 1)

\* nside = 64 of generate_mask
MaskNside == 64

\* the maps the loops start from, as their non-zero pixels: a mask or a
\* boundary with a pixel or two, and a map that is zero everywhere
UpgradeInputs ==
    {[pix |-> MaskPix, nside |-> MaskNside],
     [pix |-> {Ang2Pix(90, 0)}, nside |-> MaskNside],
     [pix |-> {}, nside |-> MaskNside],
     [pix |-> BoundaryPix, nside |-> WorkingNside],
     [pix |-> {}, nside |-> WorkingNside]}

\* a draw of n pixels that may take a pixel more than once
DrawnPixels(pix, n) ==
    [n : {n}, pix : {T \in SUBSET pix : Cardinality(T) <= n /\ (n > 0 => T # {})}]

\* survey_pix[random.sample(np.arange(numpix), n)], an array of n elements,
\* as its length and the set of its pixels: random.sample takes n different
\* places of survey_pix, which names no pixel twice
SampledPixels(pix, n) == [n : {n}, pix : {T \in SUBSET pix : Cardinality(T) = n}]

\* nside = hp.get_nside(mask); survey_pix = np.nonzero(mask)[0], and the
\* number of mocks of the layer
EnterUpgradeLoop ==
    /\ upg_pc = "idle"
    /\ \E in \in UpgradeInputs : \E n \in 0..MaxWanted :
          /\ survey_pix' = in.pix
          /\ nside' = in.nside
          /\ mocks_wanted' = n
    /\ upg_pc' = "loop"
    /\ UNCHANGED <<pp_vars, tr_vars, store_vars, z_min, f_sky, r_near, r_far, buffers,
                   num_guard_mocks, mask, log, wrapper_vars, cat_vars, partadjs,
                   partadjcount, adj_pc, vertices, boundary, bnd_pc, completeness_limit,
                   rand_pix>>

\* "more mock posns required than mask pixels, so upgrade mask to get more
\* pixels": one turn of the while loop
UpgradeMask ==
    /\ upg_pc = "loop"
    /\ mocks_wanted > Cardinality(survey_pix)
    /\ nside < WorkingNside * Pow2(MaxUpgrades)
    /\ nside' = 2 * nside
    /\ survey_pix' = UdGrade(survey_pix)
    /\ UNCHANGED <<pp_vars, tr_vars, store_vars, z_min, f_sky, r_near, r_far, buffers,
                   num_guard_mocks, mask, log, wrapper_vars, cat_vars, partadjs,
                   partadjcount, adj_pc, vertices, boundary, bnd_pc, completeness_limit,
                   mocks_wanted, rand_pix, upg_pc>>

\* rand_pix = survey_pix[random.sample(np.arange(numpix), num_high_mocks)]
SamplePixels ==
    /\ upg_pc = "loop"
    /\ ~(mocks_wanted > Cardinality(survey_pix))
    /\ rand_pix' \in SampledPixels(survey_pix, mocks_wanted)
    /\ upg_pc' = "sampled"
    /\ UNCHANGED <<pp_vars, tr_vars, store_vars, survey_vars, mask, log, wrapper_vars,
                   cat_vars, partadjs, partadjcount, adj_pc, vertices, boundary, bnd_pc,
                   completeness_limit, nside, mocks_wanted>>

InitUpgrade ==
    /\ SurveyAfterCuts
    /\ mask = <<>>
    /\ NoLoops

NextUpgrade == EnterUpgradeLoop \/ UpgradeMask \/ SamplePixels

SpecUpgrade == InitUpgrade /\ [][NextUpgrade]_vars

\* the statements of generate_buffer run one after the other: a step that
\* can be taken is taken
SpecUpgradeFair == SpecUpgrade /\ WF_vars(NextUpgrade)

(***************************************************************************)
(* The survey constructor up to the call of generate_buffer: conversion to *)
(* the standard format, the cut on the redshift limits, the sky mask and   *)
(* the removal of duplicates.  A sky pixel is the direction of its centre  *)
(* (see MaskPix); the sky of the model has the four pixels of SkyPixels.   *)
(* A mask value is a completeness in percent.                              *)
(***************************************************************************)
SkyPixels == {Ang2Pix(90, 0), Ang2Pix(90, 45), Ang2Pix(90, 180), Ang2Pix(180, 0)}

\* sum(mask)
RECURSIVE SumMask(_, _)
SumMask(m, pix) ==
    IF pix = {} THEN 0
    ELSE LET p == CHOOSE q \in pix : TRUE
         IN  m[p] + SumMask(m, pix \ {p})

\* 1.0 * np.sum(mask) / len(mask), in percent
SkyFraction(m) == SumMask(m, SkyPixels) \div Cardinality(SkyPixels)

\* generate_mask: "very crude binary mask" of the pixels the galaxies occupy
GenerateMask(rows) ==
    [p \in SkyPixels |->
        IF \E i \in 1..Len(rows) : p = Ang2Pix(90 - rows[i][5], rows[i][4])
        THEN 100 ELSE 0]

\* rows[sel, :] for a boolean array sel
RECURSIVE SelectRows(_, _)
SelectRows(rows, sel) ==
    IF rows = <<>> THEN <<>>
    ELSE (IF Head(sel) THEN <<Head(rows)>> ELSE <<>>)
         \o SelectRows(Tail(rows), Tail(sel))

\* a line printed by the constructor, with the number it carries
Printed(msg, n) == [msg |-> msg, n |-> n]

\* a selection that lets the redshift just above z_max through
ZSelectClosed(row) == z_min <= row[6] /\ row[6] <= z_max + 1

\* zselect = (self.z_min < z) & (z < self.z_max)
ZSelect(row) == z_min < row[6] /\ row[6] < z_max

\* mask[pixels] == 0 marks the bad indices
OnMask(m, row) == m[Ang2Pix(90 - row[5], row[4])] # 0

\* the order of np.unique(axis=0): rows compared column by column
RECURSIVE LexLess(_, _)
LexLess(a, b) ==
    IF a = <<>> THEN FALSE
    ELSE Head(a) < Head(b) \/ (Head(a) = Head(b) /\ LexLess(Tail(a), Tail(b)))

RECURSIVE SortedRows(_)
SortedRows(S) ==
    IF S = {} THEN <<>>
    ELSE LET least == CHOOSE r \in S : \A q \in S \ {r} : LexLess(r, q)
         IN  <<least>> \o SortedRows(S \ {least})

\* the rows sorted, with their repetitions
RECURSIVE SortKeepAll(_)
SortKeepAll(rows) ==
    IF rows = <<>> THEN <<>>
    ELSE LET i == CHOOSE k \in 1..Len(rows) :
                    \A j \in 1..Len(rows) : ~LexLess(rows[j], rows[k])
         IN  <<rows[i]>>
             \o SortKeepAll(SubSeq(rows, 1, i - 1) \o SubSeq(rows, i + 1, Len(rows)))

\* np.unique(self.tracers, axis=0): the distinct rows in sorted order
UniqueRows(rows) == SortedRows(SeqToSet(rows))

\* the catalogue file: right ascension, declination, redshift
CatalogueRows == {<<ra, 0, z>> : ra \in {0, 45}, z \in 0..3}

\* masks a mask file may hold
MaskFiles ==
    {[p \in SkyPixels |->
         IF p = Ang2Pix(90, 0) THEN a ELSE IF p = Ang2Pix(90, 45) THEN b ELSE 0] :
     a \in {0, 100}, b \in {0, 50, 100}}

InitSurvey ==
    /\ is_box = FALSE
    /\ \E n \in 1..MaxGalaxies : \E rows \in [1..n -> CatalogueRows] :
          /\ tracers = Ndarray(3, rows)
          /\ num_tracers = n
    /\ z_min \in {0, 1}
    /\ mask \in MaskFiles \cup {<<>>}
    /\ log = <<>>
    /\ NoWrapper
    /\ num_non_edge = 0
    /\ NoCatalogue
    /\ NoLoops
    /\ f_sky = 0
    /\ r_near = 0
    /\ r_far = 0
    /\ survey_pix = {}
    /\ buffers = <<>>
    /\ num_guard_mocks = 0
    /\ box_length = 0
    /\ num_mocks = 0
    /\ num_part_total = 0
    /\ tr_pc = "loaded"
    /\ posn_file = <<>>
    /\ table_written = IntZero
    /\ stage = NoStage
    /\ NoPostprocess

\* np.min(self.tracers[:, 5]) < self.z_min or np.max(self.tracers[:, 5]) > self.z_max
OutsideLimits(galaxies) ==
    \/ MinOf(Column(Ndarray(6, galaxies), 5)) < z_min
    \/ MaxOf(Column(Ndarray(6, galaxies), 5)) > z_max

\* "check and cut on the provided redshift limits"
RedshiftCut(galaxies) ==
    IF OutsideLimits(galaxies)
    THEN SelectRows(galaxies, [i \in 1..Len(galaxies) |-> ZSelect(galaxies[i])])
    ELSE galaxies

\* "convert input tracer information to standard format" and "check and cut
\* on the provided redshift limits"
CutRedshift ==
    /\ tr_pc = "loaded"
    /\ ~is_box
    /\ \E galaxies \in {[i \in 1..Len(tracers.rows) |->
                             RaDecZ2Std(tracers.rows[i][1], tracers.rows[i][2],
                                        tracers.rows[i][3])]} :
          /\ tracers' = Ndarray(6, RedshiftCut(galaxies))
          /\ log' = IF OutsideLimits(galaxies)
                    THEN Append(log, Printed("Cutting galaxies outside the redshift limits", 0))
                    ELSE log
    /\ tr_pc' = "zcut"
    /\ UNCHANGED <<is_box, box_length, num_tracers, num_mocks, num_part_total,
                   z_min, f_sky, r_near, r_far, survey_pix, buffers,
                   num_guard_mocks, mask, store_vars, pp_vars, wrapper_vars, cat_vars, loop_vars>>

\* "sky mask file": generated from the galaxies when there is none, else
\* read, and the galaxies on pixels of value 0 removed
ApplyMask ==
    /\ tr_pc = "zcut"
    /\ IF mask = <<>>
       THEN /\ mask' = GenerateMask(tracers.rows)
            /\ f_sky' = SkyFraction(mask')
            /\ UNCHANGED <<tracers, log>>
       ELSE /\ LET good == [i \in 1..Len(tracers.rows) |->
                               OnMask(mask, tracers.rows[i])]
               IN  IF \E i \in 1..Len(good) : ~good[i]
                   THEN /\ tracers' = Ndarray(6, SelectRows(tracers.rows, good))
                        /\ log' = Append(log, Printed("Galaxies exist where mask=0", 0))
                   ELSE UNCHANGED <<tracers, log>>
            /\ f_sky' = SkyFraction(mask)
            /\ UNCHANGED mask
    /\ tr_pc' = "masked"
    /\ UNCHANGED <<is_box, box_length, num_tracers, num_mocks, num_part_total,
                   z_min, r_near, r_far, survey_pix, buffers, num_guard_mocks,
                   store_vars, pp_vars, wrapper_vars, cat_vars, loop_vars>>

\* "remove any instances of two galaxies at the same location", "update
\* galaxy stats" and the comoving distances of the redshift limits
RemoveDuplicates ==
    /\ tr_pc = "masked"
    /\ \E unique_tracers \in {UniqueRows(tracers.rows)} :
          /\ log' = IF Len(unique_tracers) < Len(tracers.rows)
                    THEN Append(log, Printed("Removing galaxies with duplicate positions",
                                             Len(tracers.rows) - Len(unique_tracers)))
                    ELSE log
          /\ tracers' = Ndarray(6, unique_tracers)
          /\ num_tracers' = Len(unique_tracers)
    /\ r_near' = ComovingDistance(z_min)
    /\ r_far' = ComovingDistance(z_max)
    /\ tr_pc' = "cut"
    /\ UNCHANGED <<is_box, box_length, num_mocks, num_part_total, z_min, f_sky,
                   survey_pix, buffers, num_guard_mocks, mask, store_vars, pp_vars, wrapper_vars, cat_vars, loop_vars>>

NextSurvey ==
    \/ CutRedshift
    \/ ApplyMask
    \/ RemoveDuplicates

SpecSurvey == InitSurvey /\ [][NextSurvey]_vars

(***************************************************************************)
(* Reading the output files back.                                          *)
(***************************************************************************)
\* the structure lines of the output hierarchy file (without the count line
\* that the tidy-up puts in front)
HierLines ==
    IF pp_pc \in {"tidied", "ValueError"} THEN Tail(new_void_file) ELSE new_void_file

PostprocessRan == pp_pc \in {"parsed", "tidied", "ValueError"}

\* the list file holds one row per structure line (it does until a failed
\* tidy-up has emptied it)
RowsPresent == PostprocessRan /\ Len(new_list_file) = Len(HierLines)

\* the raw candidate (1-based file index) a list row was written for
RawOf(row) == row.core + 1

DistinctZoneIds ==
    \A i, j \in 1..Len(list_file) : list_file[i].vid = list_file[j].vid => i = j

(***************************************************************************)
(* Claims about the post-processors.                                       *)
(***************************************************************************)
\* C1: after postprocess_voids or postprocess_clusters has run over a candidate
\* list with pairwise distinct zone ids, the member-zone sets of the lines of
\* the output hierarchy file are pairwise disjoint.
C1_Disjoint ==
    (PostprocessRan /\ DistinctZoneIds) =>
        \A j, k \in 1..Len(HierLines) :
            j # k => MemberZones(HierLines[j]) \cap MemberZones(HierLines[k]) = {}

\* two structures reported, one of which has a merge step naming the other's zone
C1_Witness ==
    /\ pp_pc = "tidied"
    /\ DistinctZoneIds
    /\ Len(HierLines) = 2
    /\ \E i, j \in 1..Len(list_file) :
          /\ Len(void_file[i + 1]) > 3
          /\ list_file[j].vid \in SeqToSet(Slice(void_file[i + 1], 3, 4))
          /\ \E a, b \in 1..2 : /\ a # b
                                /\ RawOf(new_list_file[a]) = i
                                /\ RawOf(new_list_file[b]) = j

\* the three threshold conditions of the claim, on the raw files
MeetsThresholds(kind, i) ==
    /\ Tok(void_file[i + 1], 2) >= Dec(1, 0)
    /\ IF kind = "void" THEN list_file[i].dens < min_dens_cut
                        ELSE list_file[i].dens > max_dens_cut
    /\ list_file[i].np >= (IF kind = "void" THEN void_min_num ELSE cluster_min_num)

\* C2: a candidate is reported if and only if r1 >= 1, its core density is
\* below min_dens_cut (above max_dens_cut for a cluster) and its zone holds at
\* least void_min_num (cluster_min_num) particles, whatever was processed
\* before it: per zone id, the output hierarchy holds as many lines as there
\* are candidates meeting the thresholds, and the list file holds a row for
\* exactly those candidates.
C2_ReportedIffQualifies ==
    PostprocessRan =>
        /\ \A v \in 0..MaxCand :
              Cardinality({j \in 1..Len(HierLines) : Tok(HierLines[j], 0) = v})
              = Cardinality({i \in 1..Len(list_file) :
                                list_file[i].vid = v /\ MeetsThresholds(pp_kind, i)})
        /\ RowsPresent =>
              \A i \in 1..Len(list_file) :
                  MeetsThresholds(pp_kind, i)
                  <=> \E j \in 1..Len(new_list_file) : RawOf(new_list_file[j]) = i

\* two candidates with the same zone id are both reported, a third condition
\* fails for no one: and a run in which one candidate is rejected on density
C2_Witness ==
    /\ pp_pc = "parsed"
    /\ pp_kind = "void"
    /\ Len(list_file) = 2
    /\ list_file[1].vid = list_file[2].vid
    /\ Len(new_list_file) = 2

\* C3: under the no-merge policy every reported structure is its seed zone
\* alone: its hierarchy line is [seed, 0, r_stop], its list row has zone count
\* 1 and the particle count and volume of the seed zone, and r_stop is the
\* ratio r1 of the first merge step when the raw descriptor has one.
C3_SeedOnly ==
    PostprocessRan =>
        /\ \A j \in 1..Len(HierLines) :
              Len(HierLines[j]) = 3 /\ Tok(HierLines[j], 1) = 0
        /\ RowsPresent =>
              \A j \in 1..Len(new_list_file) :
                  LET row == new_list_file[j]
                      raw == list_file[RawOf(row)]
                      rawline == void_file[RawOf(row) + 1]
                  IN  /\ Tok(HierLines[j], 0) = raw.vid
                      /\ row.vid = raw.vid
                      /\ row.nzones = 1
                      /\ row.nparts = raw.np
                      /\ row.vol = raw.vol * meanvol_trc
                      /\ Tok(rawline, 1) > 0 => Tok(HierLines[j], 2) = Tok(rawline, 2)
                      /\ Tok(rawline, 1) = 0 => Tok(HierLines[j], 2) = raw.r

\* a reported structure whose raw descriptor has two merge steps
C3_Witness ==
    /\ pp_pc = "tidied"
    /\ \E j \in 1..Len(new_list_file) :
          LET rawline == void_file[RawOf(new_list_file[j]) + 1]
          IN  Len(rawline) > 6 /\ Tok(rawline, 2) # list_file[RawOf(new_list_file[j])].r

\* C4 (the claim as stated): the edge flag postprocess_voids gives a reported
\* void is 1 if and only if its seed zone has edge_flag 1 in the list file.
C4_EdgeFlagOfSeed ==
    (RowsPresent /\ pp_kind = "void") =>
        \A j \in 1..Len(new_list_file) :
            edge_flag[j] = 1 <=> list_file[RawOf(new_list_file[j])].edge = 1

\* C5: the reported structures are in ascending order of core density for
\* voids and in descending order for clusters, in the list file and (line by
\* line the same structures) in the hierarchy file.
C5_Ordered ==
    RowsPresent =>
        /\ \A j \in 1..Len(new_list_file) :
              Tok(HierLines[j], 0) = new_list_file[j].vid
        /\ \A j, k \in 1..Len(new_list_file) :
              j < k => IF pp_kind = "void"
                       THEN new_list_file[j].dens <= new_list_file[k].dens
                       ELSE new_list_file[j].dens >= new_list_file[k].dens

\* two structures reported in the reverse of their order in the raw list file
C5_Witness ==
    /\ pp_pc = "tidied"
    /\ pp_kind = "cluster"
    /\ Len(new_list_file) = 2
    /\ RawOf(new_list_file[1]) > RawOf(new_list_file[2])
    /\ new_list_file[1].dens > new_list_file[2].dens

\* C6: in the output list file the density ratio of a structure is -1 if and
\* only if its stopping ratio (the last token of its hierarchy line) is
\* greater than 10^20, and is the stopping ratio itself otherwise.
C6_RatioSentinel ==
    RowsPresent =>
        \A j \in 1..Len(new_list_file) :
            LET rstop == HierLines[j][Len(HierLines[j])]
            IN  /\ new_list_file[j].r = -1 <=> rstop > Dec(1, 20)
                /\ ~(rstop > Dec(1, 20)) => new_list_file[j].r = rstop

\* one structure stopped at exactly 10^20 and one above it
C6_Witness ==
    /\ pp_pc = "tidied"
    /\ \E j, k \in 1..Len(new_list_file) :
          /\ HierLines[j][3] = Dec(1, 20) /\ new_list_file[j].r = Dec(1, 20)
          /\ HierLines[k][3] = Dec(2, 20) /\ new_list_file[k].r = -1

(***************************************************************************)
(* Claims about the constructor and the tracer store.                      *)
(***************************************************************************)
\* C7 (the claim as stated): in box mode, after the periodic wrap made at
\* construction, every x, y and z coordinate of every tracer lies in
\* [0, box_length), whatever the coordinates of the input were.
C7_WrappedIntoBox ==
    (tr_pc = "constructed" /\ is_box) =>
        \A i \in 1..Len(tracers.rows) : \A k \in 1..3 :
            0 <= tracers.rows[i][k] /\ tracers.rows[i][k] < box_length

\* C8 (the claim as stated): in box mode and in survey mode alike,
\* reread_tracer_info after write_box_zobov leaves a tracer table identical to
\* the one written: as many rows and columns, the same values in the same order.
C8_RoundTrip ==
    tr_pc = "reread" => tracers = table_written

\* what a stage takes from a table
StageData(name, t) ==
    IF name = "zobov_wrapper"
    THEN (IF is_box THEN <<>> ELSE SkyColumns(t))
    ELSE Positions(t)

\* the stages of the claim: the reweighting of zobov_wrapper exists for a
\* survey only
NeedsTracers(name) ==
    /\ name # "none"
    /\ name = "zobov_wrapper" => (~is_box /\ (use_z_wts \/ use_ang_wts))

\* C9 (the claim as stated): once the table has been written and then evicted
\* by delete_tracer_info, a stage that needs tracer data finds the table
\* absent, reads it back and goes on with the data of the table written.
C9_StagesReload ==
    (NeedsTracers(stage.name) /\ stage.evicted /\ table_written.type = "ndarray") =>
        /\ stage.outcome = "ok"
        /\ tracers.type = "ndarray"
        /\ stage.data = StageData(stage.name, table_written)

\* the layout of the table when generate_buffer returns
BufferLayout ==
    /\ num_part_total = num_tracers + num_mocks
    /\ Len(tracers.rows) = num_part_total
    /\ \A i \in 1..Len(tracers.rows) :
          /\ i > num_tracers => tracers.rows[i][6] = -1
          /\ i > Len(tracers.rows) - num_guard_mocks =>
                tracers.rows[i][4] = -60 /\ tracers.rows[i][5] = -60

\* a step of generate_buffer keeps the real tracers as the first rows
TracersKept ==
    tr_pc \in {"cut", "high", "low", "edges"} =>
        (num_tracers' = num_tracers
         /\ SubSeq(tracers'.rows, 1, num_tracers) = tracers.rows)

\* C10: when generate_buffer returns, num_part_total is num_tracers +
\* num_mocks and is the number of rows of the tracer table; every row from
\* index num_tracers on has redshift -1, and the guard rows (the last
\* num_guard_mocks) have RA = Dec = -60; and through all of generate_buffer
\* the first num_tracers rows stay the real tracers, in their order.
C10_BufferLayout ==
    [](tr_pc = "buffered" => BufferLayout) /\ [][TracersKept]_vars

\* two galaxies, buffers in all three layers and guards behind them
C10_Witness ==
    /\ tr_pc = "buffered"
    /\ num_tracers = 2
    /\ num_guard_mocks > 0
    /\ num_mocks >= num_guard_mocks + 3
    /\ z_min > 0
    /\ f_sky < 100

\* C11: when the survey constructor has run generate_buffer and shifted the
\* positions from observer to box coordinates, every x, y and z of every row
\* of the tracer table (galaxies, cap and boundary mocks, guards) is in
\* [0, box_length).
C11_AllInBox ==
    (tr_pc = "constructed" /\ ~is_box) =>
        \A i \in 1..Len(tracers.rows) : \A c \in 1..3 :
            0 <= tracers.rows[i][c] /\ tracers.rows[i][c] < box_length

\* a constructed survey with galaxies, mocks of the three layers and guards,
\* one mock in a direction off the coordinate axes
C11_Witness ==
    /\ tr_pc = "constructed"
    /\ ~is_box
    /\ num_guard_mocks > 0
    /\ num_mocks >= num_guard_mocks + 3
    /\ \E i \in (num_tracers + 1)..Len(tracers.rows) : tracers.rows[i][4] = 45

(***************************************************************************)
(* Claims about the survey constructor.                                    *)
(***************************************************************************)
\* the printed count of removed duplicates, 0 when nothing was printed
RemovedCount ==
    IF log # <<>> /\ log[Len(log)].msg = "Removing galaxies with duplicate positions"
    THEN log[Len(log)].n ELSE 0

\* C12: the removal of duplicates leaves no two equal rows, keeps every
\* distinct row exactly once (so the number of rows dropped, which is the
\* number printed, is the number of rows minus the number of distinct rows),
\* and sets num_tracers to the number of distinct rows.
C12_Dedupe ==
    [][(tr_pc = "masked" /\ tr_pc' = "cut") =>
          /\ \A i, j \in 1..Len(tracers'.rows) :
                 tracers'.rows[i] = tracers'.rows[j] => i = j
          /\ SeqToSet(tracers'.rows) = SeqToSet(tracers.rows)
          /\ num_tracers' = Cardinality(SeqToSet(tracers.rows))
          /\ Len(tracers'.rows) = num_tracers'
          /\ RemovedCount' = Len(tracers.rows) - Cardinality(SeqToSet(tracers.rows))]_vars

\* three identical galaxies of which two were dropped, and a pair of which
\* one was dropped next to a galaxy that was alone
C12_Witness ==
    /\ tr_pc = "cut"
    /\ \/ RemovedCount = 2 /\ num_tracers = 1
       \/ RemovedCount = 1 /\ num_tracers = 2

\* C13: when the survey constructor has made its cuts, every galaxy kept has
\* a redshift within [z_min, z_max] and lies on a pixel of mask value
\* greater than 0.
C13_InsideSurvey ==
    tr_pc = "cut" =>
        \A i \in 1..Len(tracers.rows) :
            /\ z_min <= tracers.rows[i][6] /\ tracers.rows[i][6] <= z_max
            /\ mask[Ang2Pix(90 - tracers.rows[i][5], tracers.rows[i][4])] > 0

\* galaxies were removed by the redshift cut and by a mask read from file,
\* and one was kept
C13_Witness ==
    /\ tr_pc = "cut"
    /\ num_tracers >= 1
    /\ \E i, j \in 1..Len(log) :
          /\ log[i].msg = "Cutting galaxies outside the redshift limits"
          /\ log[j].msg = "Galaxies exist where mask=0"

(***************************************************************************)
(* Claims about zobov_wrapper.                                             *)
(***************************************************************************)
\* the command was called in the last zobov_wrapper
Invoked(cmd) == \E k \in 1..Len(calls) : calls[k].cmd = cmd

\* <handle>.vol as the tessellation left it
TessellatedVol == Tessellate(env).files.vol

\* C14: whenever survey-mode zobov_wrapper rewrites <handle>.vol, every
\* non-edge cell whose raw volume is positive has a written volume that is
\* strictly greater than 0, whatever the selection function and the mask.
C14_PositiveVolumes ==
    (zw_pc = "done" /\ ~is_box) =>
        \A i \in 1..files.vol.n :
            (TessellatedVol.v[i] # EdgeVol /\ TessellatedVol.v[i] > 0) =>
                files.vol.v[i] > 0

\* a reweighting step gives a non-edge cell the volume 0: its raw volume is
\* 0, or the selection function at its redshift is, or the mask on its pixel
ZeroNonEdgeCell ==
    /\ TessellatedVol # Missing
    /\ \E i \in 1..TessellatedVol.n :
          /\ TessellatedVol.v[i] # EdgeVol
          /\ \/ TessellatedVol.v[i] * DensityScale = 0
             \/ /\ tracers.type = "ndarray"
                /\ TessellatedVol.n = num_tracers
                /\ \/ use_z_wts /\ ZFactors(env)[i] = 0
                   \/ use_ang_wts /\ AngFactors[i] = 0

\* C15: if a reweighting step (density scaling, z-weights, angular weights)
\* gives a non-edge cell the volume 0, zobov_wrapper ends at that step:
\* <handle>.vol keeps the content the tessellation gave it, no cluster volume
\* file is written and jozovtrvol is never called.
C15_ZeroIsFatal ==
    (zw_pc # "idle" /\ ~is_box /\ ZeroNonEdgeCell) =>
        /\ zw_pc \in {"exit: zero volume", "exit: z-weights", "exit: angular weights"}
        /\ files.vol = TessellatedVol
        /\ files.cvol = Missing
        /\ ~Invoked("jozovtrvol v")
        /\ ~Invoked("jozovtrvol c")

C15_Witness ==
    /\ zw_pc = "exit: z-weights"
    /\ ~is_box
    /\ env.find_clusters
    /\ files.vol = TessellatedVol
    /\ \E i \in 1..files.vol.n : files.vol.v[i] = 200

\* a tessellation program of the last call ended with a non-zero status
TessellationFailed ==
    \E k \in 1..Len(calls) :
        /\ calls[k].cmd \in {"vozisol", "vozinit", "scr", "checkedges"}
        /\ calls[k].status # 0

\* C16: if a tessellation subprocess (vozisol, vozinit, the driver script,
\* checkedges) exits with a non-zero status, or <handle>.vol is missing after
\* it, the call halts before any later stage: the volumes are not reweighted
\* and jozovtrvol is not called.
C16_HaltsOnFailure ==
    (zw_pc # "idle" /\ (TessellationFailed \/ TessellatedVol = Missing)) =>
        /\ zw_pc # "done"
        /\ files.vol = TessellatedVol
        /\ files.cvol = Missing
        /\ ~Invoked("jozovtrvol v")
        /\ ~Invoked("jozovtrvol c")

(***************************************************************************)
(* Claims about the sanity checks of postprocess_voids.                    *)
(***************************************************************************)
\* the raw files disagree: the hierarchy count with the rows of the list
\* file, or the header of a volume file with num_tracers
RawFilesDisagree ==
    \/ void_file[1][1] # Len(list_file)
    \/ files.trvol.n # num_tracers
    \/ files.vol.n # num_tracers

\* C17: postprocess_voids aborts when the count on the first line of the raw
\* hierarchy file differs from the number of rows of the list file, or when
\* the header count of the .trvol or the .vol file differs from num_tracers;
\* in every such abort the output hierarchy file and the output list file
\* are as they were, neither created nor truncated.
C17_AbortsBeforeOutput ==
    [][(pp_pc = "raw" /\ pp_kind' = "void" /\ RawFilesDisagree) =>
          /\ pp_pc' \in {"exit", "IndexError"}
          /\ new_void_file' = new_void_file
          /\ new_list_file' = new_list_file]_vars

C17_Witness ==
    /\ pp_pc = "exit"
    /\ pp_kind = "void"
    /\ void_file[1][1] = Len(list_file)
    /\ files.trvol.n = num_tracers
    /\ files.vol.n # num_tracers
    /\ new_void_file = OldVoidFile
    /\ new_list_file = OldListFile

(***************************************************************************)
(* Claims about the void catalogues.                                       *)
(***************************************************************************)
\* void i of the list file lacks mutual adjacency: no tracer is adjacent to
\* its core and to the lowest-density neighbour of the core (M empty), or no
\* tracer of M is adjacent to the lowest-density member of M (F empty)
LacksAdjacency(i) ==
    LET nb == Neighbours(PartAdjs(adj_file), files.vol.v, new_list_file[i].core)
    IN  nb.err = "none" /\ Len(nb.nbrs) < 3

\* C18: for every void whose core tracer has M empty or F empty,
\* find_void_circumcentres sets the edge flag of the void to 2 and uses the
\* position (0,0,0); the centre in the catalogue of a box is (0,0,0), and the
\* angular radius in the catalogue of a survey is 0.
C18_NoTetrahedron ==
    cc_pc = "done" =>
        \A i \in 1..Len(void_cat) :
            LacksAdjacency(i) =>
                /\ edge_flag[i] = 2
                /\ circumcentres[i] = [num |-> <<0, 0, 0>>, den |-> 1]
                /\ is_box => void_cat[i].centre = [num |-> <<0, 0, 0>>, den |-> 1]
                /\ ~is_box => void_cat[i].angrad = 0

C18_Witness ==
    /\ cc_pc = "done"
    /\ ~is_box
    /\ LacksAdjacency(1)
    /\ ~LacksAdjacency(2)
    /\ void_cat[1].angrad = 0
    /\ void_cat[2].angrad > 0

\* the square of twice the distance of a centre from the observer, times the
\* square of the denominator
TwiceDist2(c) ==
    LET o == [k \in 1..3 |-> 2 * c.num[k] - box_length * c.den]
    IN  o[1] * o[1] + o[2] * o[2] + o[3] * o[3]

\* the centre lies in the radial range [r_near, r_far] of the survey
InsideSurvey(c) ==
    /\ TwiceDist2(c) >= 4 * r_near * r_near * c.den * c.den
    /\ TwiceDist2(c) <= 4 * r_far * r_far * c.den * c.den

\* the centre lies on a pixel of mask value 0
OnDarkPixel(c) == mask[PixelOf([k \in 1..3 |-> 2 * c.num[k] - box_length * c.den])] = 0

\* C19: in survey mode a void whose centre lies at a comoving distance
\* outside [r_near, r_far], or on a pixel of mask value 0, is catalogued with
\* edge flag 2, RA = Dec = -60, redshift -1 and angular radius 0; every other
\* void with a tetrahedron is catalogued with RA in [0, 360), a redshift in
\* the survey range and the edge flag (0 or 1) post-processing gave it.
C19_SurveyFallback ==
    [][(cc_pc = "idle" /\ cc_pc' = "done" /\ ~is_box) =>
          \A i \in 1..Len(void_cat') :
              IF ~InsideSurvey(circumcentres'[i]) \/ OnDarkPixel(circumcentres'[i])
              THEN /\ void_cat'[i].edge = 2
                   /\ void_cat'[i].ra = -60
                   /\ void_cat'[i].dec = -60
                   /\ void_cat'[i].redshift = -1 * 40
                   /\ void_cat'[i].angrad = 0
              ELSE ~LacksAdjacency(i) =>
                   /\ 0 <= void_cat'[i].ra /\ void_cat'[i].ra < 360
                   /\ 40 * z_min <= void_cat'[i].redshift
                   /\ void_cat'[i].redshift <= 40 * z_max
                   /\ void_cat'[i].edge = edge_flag[i]
                   /\ void_cat'[i].edge \in {0, 1}]_vars

C19_Witness ==
    /\ cc_pc = "done"
    /\ ~is_box
    /\ \E i \in 1..Len(void_cat) :
          /\ ~LacksAdjacency(i)
          /\ InsideSurvey(circumcentres[i])
          /\ OnDarkPixel(circumcentres[i])
          /\ void_cat[i].edge = 2
          /\ void_cat[i].ra = -60

\* every coordinate of the centres of a catalogue lies in [0, box_length)
InsideBox(cat) ==
    \A i \in 1..Len(cat) : \A c \in 1..3 :
        /\ cat[i].centre.den > 0
        /\ 0 <= cat[i].centre.num[c]
        /\ cat[i].centre.num[c] < box_length * cat[i].centre.den

\* C20: in box mode every coordinate of every void centre written to the
\* circumcentre catalogue and to the barycentre catalogue lies in [0, L),
\* whatever the positions of the vertices and of the members in [0, L) are.
C20_CentresInBox == is_box => (InsideBox(void_cat) /\ InsideBox(bary_cat))

(***************************************************************************)
(* Claims about the adjacency lists and the tetrahedra.                    *)
(***************************************************************************)
\* the record of tracer i in the .adj file names tracer j
Encoded(i, j) == j \in SeqToSet(adj_file.pairs[i + 1])

\* the .adj file encodes each adjacent pair once
EncodesOnce ==
    \A i, j \in 0..(adj_file.n - 1) : ~(Encoded(i, j) /\ Encoded(j, i))

\* how often x occurs in the sequence l
Occurrences(l, x) == Cardinality({k \in 1..Len(l) : l[k] = x})

\* C21: for a .adj file that encodes each adjacent pair once, the length of
\* every adjacency list equals its counter partadjcount after every turn of
\* the reader, and when the file is read the lists are the symmetric closure
\* of the file: j is in the list of i exactly when the file encodes the
\* pair (i, j) or (j, i), and then exactly once, so j is in the list of i if
\* and only if i is in the list of j.
C21_SymmetricClosure ==
    (adj_pc >= 0 /\ EncodesOnce) =>
        /\ \A k \in 1..adj_file.n : Len(partadjs[k]) = partadjcount[k]
        /\ adj_pc = adj_file.n =>
               \A i, j \in 0..(adj_file.n - 1) :
                   /\ Occurrences(partadjs[i + 1], j)
                        = (IF Encoded(i, j) \/ Encoded(j, i) THEN 1 ELSE 0)
                   /\ Occurrences(partadjs[i + 1], j) = Occurrences(partadjs[j + 1], i)

C21_Witness ==
    /\ adj_pc = adj_file.n
    /\ EncodesOnce
    /\ Encoded(0, 1)
    /\ Encoded(2, 0)
    /\ Encoded(3, 2)
    /\ partadjs[1] = <<1, 2>>
    /\ partadjs[3] = <<0, 3>>
    /\ partadjcount[3] = 2

\* tracers i and j are adjacent: the relation the .adj file encodes
Adjacent(i, j) == Encoded(i, j) \/ Encoded(j, i)

\* the tracers adjacent to every tracer of S
CommonNeighbours(S) == {x \in 0..(adj_file.n - 1) : \A y \in S : Adjacent(x, y)}

\* v has the lowest density of the tracers of S: density is the inverse of
\* the (positive) Voronoi volume
LowestIn(v, S) == v \in S /\ \A x \in S : files.vol.v[v + 1] >= files.vol.v[x + 1]

\* a tetrahedron was built for the void whose neighbours were looked for
TetrahedronBuilt == vertices.core >= 0 /\ vertices.err = "none" /\ Len(vertices.nbrs) = 3

\* C22: whenever find_void_circumcentres builds a tetrahedron, the core c and
\* the neighbours v1, v2, v3 are four distinct tracers, pairwise adjacent,
\* and v1 has the lowest density of the tracers adjacent to c, v2 of those
\* adjacent to c and v1, and v3 of those adjacent to c, v1 and v2.
C22_Tetrahedron ==
    (TetrahedronBuilt /\ EncodesOnce) =>
        LET c == vertices.core
            v1 == vertices.nbrs[1]
            v2 == vertices.nbrs[2]
            v3 == vertices.nbrs[3]
        IN  /\ Cardinality({c, v1, v2, v3}) = 4
            /\ \A x, y \in {c, v1, v2, v3} : x # y => Adjacent(x, y)
            /\ LowestIn(v1, CommonNeighbours({c}))
            /\ LowestIn(v2, CommonNeighbours({c, v1}))
            /\ LowestIn(v3, CommonNeighbours({c, v1, v2}))

C22_Witness ==
    /\ TetrahedronBuilt
    /\ EncodesOnce
    /\ vertices.core = 2
    /\ vertices.nbrs = <<3, 0, 1>>
    /\ files.vol.v = <<200, 100, 200, 300>>

\* tracer c has three neighbours such that c and the three are pairwise
\* adjacent
HasTetrahedron(c) ==
    \E x, y, z \in CommonNeighbours({c}) :
        /\ Cardinality({c, x, y, z}) = 4
        /\ Adjacent(x, y) /\ Adjacent(x, z) /\ Adjacent(y, z)

\* C28: if the core tracer of a void has a triple of neighbours such that the
\* core and the three are pairwise adjacent, find_void_circumcentres builds a
\* tetrahedron for the void and does not set its edge flag to 2 (in a box the
\* flag 2 has no other origin), whatever the densities are.
C28_TetrahedronFound ==
    (cc_pc = "done" /\ is_box /\ EncodesOnce) =>
        \A i \in 1..Len(void_cat) :
            HasTetrahedron(new_list_file[i].core) =>
                /\ edge_flag[i] # 2
                /\ ~LacksAdjacency(i)

\* the centre find_void_circumcentres finds for void i of the list file when
\* it is the first void of its loop
CentreWhenFirst(i) ==
    CircTurn(CircStart(edge_flag), new_list_file[i], i, PartAdjs(adj_file),
             files.vol.v, Positions(tracers)).centres[1]

\* C27: the centre find_void_circumcentres writes for a void depends only on
\* the data of that void: after any sequence of earlier voids, one without a
\* tetrahedron included, it is the centre found when the void comes first.
C27_OwnDataOnly ==
    cc_pc = "done" =>
        \A i \in 1..Len(circumcentres) : circumcentres[i] = CentreWhenFirst(i)

(***************************************************************************)
(* Claims about the redshift cut.                                          *)
(***************************************************************************)
\* a row of the catalogue file in the standard format
StdRow(r) == RaDecZ2Std(r[1], r[2], r[3])

\* C29: whether a tracer survives the redshift cut depends only on its own
\* redshift and on (z_min, z_max): a tracer of the catalogue being cut is
\* kept if and only if it is kept in the catalogue made of it and of any one
\* other tracer.
C29_OwnRedshiftOnly ==
    [][(tr_pc = "loaded" /\ tr_pc' = "zcut") =>
          \A i \in 1..Len(tracers.rows) : \A other \in CatalogueRows :
              LET g == StdRow(tracers.rows[i])
              IN  (g \in SeqToSet(tracers'.rows))
                  <=> (g \in SeqToSet(RedshiftCut(<<g, StdRow(other)>>)))]_vars

(***************************************************************************)
(* Claims about the files postprocess_voids leaves.                        *)
(***************************************************************************)
\* C30: for every number k >= 0 of qualifying candidates, 0 and 1 included,
\* postprocess_voids goes on from its candidate loop to tidy its files, and
\* then the output hierarchy file starts with the count k followed by exactly
\* k lines and the output list file has exactly k rows.
C30_EveryCount ==
    [][(pp_kind = "void" /\ pp_pc = "parsed") =>
          /\ pp_pc' = "tidied"
          /\ new_void_file'[1] = <<num__acc>>
          /\ Len(new_void_file') = num__acc + 1
          /\ Len(new_list_file') = num__acc]_vars

(***************************************************************************)
(* Claims about the volume files of zobov_wrapper.                         *)
(***************************************************************************)
\* C25: in survey mode with z-weights and angular weights disabled, the
\* <handle>.vol that zobov_wrapper rewrites has the header count and the
\* cell order of the file it read; every edge cell (raw volume equal to the
\* sentinel) is written back unchanged, and every other cell is its raw
\* volume times (tracer_dens * box_length^3) / num_part_total.
C25_ScaledVolumes ==
    (zw_pc = "done" /\ ~is_box /\ ~use_z_wts /\ ~use_ang_wts) =>
        /\ files.vol.n = TessellatedVol.n
        /\ Len(files.vol.v) = Len(TessellatedVol.v)
        /\ \A i \in 1..Len(files.vol.v) :
              files.vol.v[i] = IF TessellatedVol.v[i] = EdgeVol THEN EdgeVol
                               ELSE TessellatedVol.v[i] * DensityScale

\* a survey without weights whose first cell was tagged by checkedges and
\* whose second cell was scaled
C25_Witness ==
    /\ zw_pc = "done"
    /\ ~is_box
    /\ ~use_z_wts
    /\ ~use_ang_wts
    /\ Invoked("checkedges")
    /\ files.vol.n >= 2
    /\ TessellatedVol.v[1] = EdgeVol
    /\ files.vol.v[1] = EdgeVol
    /\ files.vol.v[2] = 200 * DensityScale

\* the place of the first call of cmd among the calls, 0 when not called
FirstCall(cmd) ==
    IF Invoked(cmd) THEN CHOOSE k \in 1..Len(calls) :
                            /\ calls[k].cmd = cmd
                            /\ \A j \in 1..(k - 1) : calls[j].cmd # cmd
    ELSE 0

\* C26: in divided tessellation mode zobov_wrapper runs the tessellation,
\* verifies that <handle>.vol exists, copies it to <handle>.trvol and only
\* then runs checkedges; checkedges runs if and only if num_mocks > 0, so
\* <handle>.trvol holds the volumes as they were before any edge tagging,
\* and jozovtrvol runs only after all of these steps.
C26_DividedOrder ==
    (zw_pc # "idle" /\ ~env.use_vozisol) =>
        /\ Invoked("vozinit") /\ Invoked("scr")
        /\ FirstCall("vozinit") < FirstCall("scr")
        /\ Invoked("cp vol trvol") <=> env.vol_written /\ env.fails # "vozinit_noscr"
        /\ Invoked("cp vol trvol") =>
              /\ FirstCall("scr") < FirstCall("cp vol trvol")
              /\ Invoked("checkedges") <=> num_mocks > 0
              /\ \A i \in 1..files.trvol.n : files.trvol.v[i] = env.vols[i]
        /\ Invoked("checkedges") => FirstCall("cp vol trvol") < FirstCall("checkedges")
        /\ ~Invoked("cp vol trvol") =>
              ~Invoked("checkedges") /\ ~Invoked("jozovtrvol v") /\ files.trvol = Missing
        /\ Invoked("jozovtrvol v") =>
              /\ FirstCall("cp vol trvol") < FirstCall("jozovtrvol v")
              /\ FirstCall("checkedges") < FirstCall("jozovtrvol v")

\* checkedges tagged the first cell in <handle>.vol, and <handle>.trvol has
\* its volume as it was
C26_Witness ==
    /\ zw_pc = "done"
    /\ ~env.use_vozisol
    /\ num_mocks > 0
    /\ FirstCall("cp vol trvol") = 3
    /\ FirstCall("checkedges") = 4
    /\ FirstCall("jozovtrvol v") = 5
    /\ files.vol.v[1] = EdgeVol
    /\ files.trvol.v[1] = 200

(***************************************************************************)
(* Claims about find_mask_boundary.                                        *)
(***************************************************************************)
\* the working map
WorkingMask == UdGrade512(mask)

\* the pixels within the mask
Filled == {p \in 0..(NPix - 1) : WorkingMask[p + 1] > completeness_limit}

\* the pixels at most k steps of the 8-neighbour relation away from S
RECURSIVE Within(_, _)
Within(S, k) ==
    IF k = 0 THEN S
    ELSE Within(S \cup {n \in 0..(NPix - 1) :
                           \E p \in S : n \in SeqToSet(GetAllNeighbours(p))}, k - 1)

\* C23: find_mask_boundary returns a binary map in which a pixel has the
\* flag 1 if and only if it is outside the mask (mask <= completeness limit)
\* and its distance to the nearest filled pixel, in steps of the 8-neighbour
\* relation, is at least 2 and at most the number of turns 2 + nside / 128,
\* which is 6; no flagged pixel is inside the mask or next to it.
C23_BoundaryRings ==
    bnd_pc = Turns + 1 =>
        /\ Turns = 6
        /\ \A p \in 0..(NPix - 1) :
              /\ boundary[p + 1] \in {0, 1}
              /\ boundary[p + 1] = 1 <=>
                    /\ WorkingMask[p + 1] <= completeness_limit
                    /\ p \in Within(Filled, Turns)
                    /\ p \notin Within(Filled, 1)

\* one end of the strip is filled: the ring next to it is not flagged, five
\* rings after it are, and the pixels beyond them are not
C23_Witness ==
    /\ bnd_pc = Turns + 1
    /\ completeness_limit = 50
    /\ mask[1] = 100
    /\ \A k \in 2..StripLen : mask[k] <= 50
    /\ boundary[3] = 0
    /\ \A q \in 4..8 : boundary[q] = 1
    /\ boundary[9] = 0
    /\ boundary[FineCols + 4] = 1

(***************************************************************************)
(* Claims about the upgrade loops of generate_buffer.                      *)
(***************************************************************************)
\* the loop was left with a pixel for every mock, and the pixels drawn are
\* mocks_wanted different non-zero pixels of the map
SampledWell ==
    upg_pc = "sampled" =>
        /\ Cardinality(survey_pix) >= mocks_wanted
        /\ rand_pix.n = mocks_wanted
        /\ Cardinality(rand_pix.pix) = rand_pix.n
        /\ rand_pix.pix \subseteq survey_pix

\* a map without a non-zero pixel never leaves the loop when mocks are wanted
ZeroMapLoops == (survey_pix = {} /\ mocks_wanted > 0) => upg_pc # "sampled"

\* C24: for a map with at least one non-zero pixel and any number N of
\* mocks, the upgrade loop of generate_buffer ends with at least N non-zero
\* pixels, and the N pixels then drawn are pairwise different non-zero
\* pixels of the map; with no non-zero pixel and N > 0 the loop never ends.
C24_UpgradeLoop ==
    /\ [](SampledWell /\ ZeroMapLoops)
    /\ (upg_pc = "loop" /\ survey_pix # {}) ~> (upg_pc = "sampled")

\* a mask of one pixel was upgraded twice for five mocks
C24_Witness ==
    /\ upg_pc = "sampled"
    /\ mocks_wanted = 5
    /\ nside = 4 * MaskNside
    /\ Cardinality(survey_pix) = 16
    /\ Cardinality(rand_pix.pix) = 5

====
